---- MODULE Spec2Model ----
(***************************************************************************)
(* FileOrganizerPro: the classification pipeline (FileClassifier) and the  *)
(* plan executor (FileExecutor) of src/FileOrganizerPro.py as state        *)
(* machines.  Python strings are TLA+ strings; the string methods the code *)
(* uses (lower, in, replace, Path.suffix, Path.stem, re.search) are        *)
(* computed character by character.                                        *)
(***************************************************************************)
EXTENDS Integers, Sequences, FiniteSets, TLC

(***************************************************************************)
(* Bounds of the model                                                     *)
(***************************************************************************)
\* longest record list handed to one classifier run
MaxFiles == 2
\* longest keyword list of a record in the keyword-step specification
MaxKeywords == 2
\* longest record list in the duplicate pre-pass specification
MaxDupFiles == 3
\* longest move list of a plan handed to the executor
MaxMoves == 2

(***************************************************************************)
(* Python string operations                                                *)
(***************************************************************************)
Ch(s, i) == SubSeq(s, i, i)

UPPER == "ABCDEFGHIJKLMNOPQRSTUVWXYZ"
LOWER == "abcdefghijklmnopqrstuvwxyz"

\* str.lower() on one character
LowerMap == [c \in {Ch(UPPER, i) : i \in 1..Len(UPPER)} |->
               Ch(LOWER, CHOOSE i \in 1..Len(UPPER) : Ch(UPPER, i) = c)]

LowerChar(c) == IF c \in DOMAIN LowerMap THEN LowerMap[c] ELSE c

RECURSIVE lower(_)
\* str.lower()
lower(s) == IF s = "" THEN "" ELSE LowerChar(Head(s)) \o lower(Tail(s))

\* str.startswith, str.endswith
StartsWith(s, p) == Len(p) <= Len(s) /\ SubSeq(s, 1, Len(p)) = p
EndsWith(s, p) == Len(p) <= Len(s) /\ SubSeq(s, Len(s) - Len(p) + 1, Len(s)) = p

\* `sub in s` for two strings
Contains(sub, s) ==
  \E i \in 1..(Len(s) - Len(sub) + 1) : SubSeq(s, i, i + Len(sub) - 1) = sub

\* `x in lst` for a list: equality with one of the elements
InList(x, lst) == \E i \in 1..Len(lst) : lst[i] = x

RECURSIVE replace(_, _, _)
\* str.replace(old, new): every occurrence, left to right
replace(s, old, new) ==
  IF s = "" THEN ""
  ELSE IF StartsWith(s, old)
       THEN new \o replace(SubSeq(s, Len(old) + 1, Len(s)), old, new)
       ELSE Head(s) \o replace(Tail(s), old, new)

\* str.rfind(c): 0 when absent (positions from 1)
rfind(s, c) ==
  IF \E i \in 1..Len(s) : Ch(s, i) = c
  THEN CHOOSE i \in 1..Len(s) : Ch(s, i) = c /\ \A j \in (i+1)..Len(s) : Ch(s, j) # c
  ELSE 0

DIGITS == "0123456789"

RECURSIVE str(_)
\* str(n) for n >= 0; also strftime('%Y') of a four-digit year
str(n) == IF n < 10 THEN Ch(DIGITS, n + 1)
          ELSE str(n \div 10) \o Ch(DIGITS, (n % 10) + 1)

\* PurePath.suffix of a file name: from the last dot, unless the dot is the
\* first or the last character
suffix(name) ==
  LET i == rfind(name, ".")
  IN  IF 1 < i /\ i < Len(name) THEN SubSeq(name, i, Len(name)) ELSE ""

\* PurePath.stem of a file name
stem(name) ==
  LET i == rfind(name, ".")
  IN  IF 1 < i /\ i < Len(name) THEN SubSeq(name, 1, i - 1) ELSE name

\* PurePath.name and PurePath.parent of a path string
basename(p) == SubSeq(p, rfind(p, "/") + 1, Len(p))
parent(p) == LET i == rfind(p, "/") IN IF i = 0 THEN "" ELSE SubSeq(p, 1, i - 1)

\* re.search(pattern, text, re.IGNORECASE) for the two pattern shapes of the
\* rule table: \.(a|b|...)$ (ext) and a plain literal.  `$` matches at the
\* end of the text and before a final newline.
re_search(pattern, text) ==
  LET t == lower(text)
  IN  IF pattern.ext
      THEN \E a \in pattern.alts :
             EndsWith(t, "." \o a) \/ EndsWith(t, "." \o a \o "\n")
      ELSE \E a \in pattern.alts : Contains(a, t)

(***************************************************************************)
(* Tables of the program                                                   *)
(***************************************************************************)
\* MetadataReader.PHOTO_EXTENSIONS
PHOTO_EXTENSIONS ==
  { ".jpg", ".jpeg", ".png", ".gif", ".bmp", ".tiff", ".tif",
    ".raw", ".cr2", ".cr3",
    ".nef", ".arw", ".dng", ".orf", ".rw2", ".pef",
    ".srw", ".heic", ".heif" }

\* FileClassifier._build_rules: pattern, destination template, display name,
\* match target (check_name: the lower-cased file name, else the extension)
build_rules ==
  <<
    [pattern |-> [alts |-> {"dmg", "iso", "img"}, ext |-> TRUE],
     dest |-> "Archives/Disk Images/{year}", name |-> "Disk Images", check_name |-> FALSE],
    [pattern |-> [alts |-> {"zip", "rar", "7z", "tar", "gz"}, ext |-> TRUE],
     dest |-> "Archives/Compressed/{year}", name |-> "Compressed", check_name |-> FALSE],
    [pattern |-> [alts |-> {"pdf"}, ext |-> TRUE],
     dest |-> "Documents/PDF/{year}", name |-> "PDF", check_name |-> FALSE],
    [pattern |-> [alts |-> {"doc", "docx", "rtf"}, ext |-> TRUE],
     dest |-> "Documents/Word/{year}", name |-> "Word Docs", check_name |-> FALSE],
    [pattern |-> [alts |-> {"xls", "xlsx", "csv"}, ext |-> TRUE],
     dest |-> "Documents/Spreadsheets/{year}", name |-> "Spreadsheets", check_name |-> FALSE],
    [pattern |-> [alts |-> {"ppt", "pptx", "key"}, ext |-> TRUE],
     dest |-> "Documents/Presentations/{year}", name |-> "Presentations", check_name |-> FALSE],
    [pattern |-> [alts |-> {"txt", "md", "rst"}, ext |-> TRUE],
     dest |-> "Documents/Text/{year}", name |-> "Text Files", check_name |-> FALSE],
    [pattern |-> [alts |-> {"py", "pyw"}, ext |-> TRUE],
     dest |-> "Code/Python", name |-> "Python", check_name |-> FALSE],
    [pattern |-> [alts |-> {"js", "ts", "jsx", "tsx"}, ext |-> TRUE],
     dest |-> "Code/JavaScript", name |-> "JavaScript", check_name |-> FALSE],
    [pattern |-> [alts |-> {"html", "htm", "css", "scss"}, ext |-> TRUE],
     dest |-> "Code/Web", name |-> "Web", check_name |-> FALSE],
    [pattern |-> [alts |-> {"java", "kt"}, ext |-> TRUE],
     dest |-> "Code/Java", name |-> "Java", check_name |-> FALSE],
    [pattern |-> [alts |-> {"c", "cpp", "h", "hpp"}, ext |-> TRUE],
     dest |-> "Code/C++", name |-> "C/C++", check_name |-> FALSE],
    [pattern |-> [alts |-> {"swift", "m"}, ext |-> TRUE],
     dest |-> "Code/Swift", name |-> "Swift", check_name |-> FALSE],
    [pattern |-> [alts |-> {"go"}, ext |-> TRUE],
     dest |-> "Code/Go", name |-> "Go", check_name |-> FALSE],
    [pattern |-> [alts |-> {"rs"}, ext |-> TRUE],
     dest |-> "Code/Rust", name |-> "Rust", check_name |-> FALSE],
    [pattern |-> [alts |-> {"sh", "bash", "zsh"}, ext |-> TRUE],
     dest |-> "Code/Shell", name |-> "Shell", check_name |-> FALSE],
    [pattern |-> [alts |-> {"json", "yaml", "yml", "toml", "ini", "cfg"}, ext |-> TRUE],
     dest |-> "Config", name |-> "Config", check_name |-> FALSE],
    [pattern |-> [alts |-> {"mp4", "mov", "avi", "mkv", "wmv", "flv", "webm"}, ext |-> TRUE],
     dest |-> "Videos/{year}", name |-> "Videos", check_name |-> FALSE],
    [pattern |-> [alts |-> {"mp3", "wav", "flac", "aac", "ogg", "m4a"}, ext |-> TRUE],
     dest |-> "Audio/{year}", name |-> "Audio", check_name |-> FALSE],
    [pattern |-> [alts |-> {"svg", "ai", "eps", "psd"}, ext |-> TRUE],
     dest |-> "Graphics/Design/{year}", name |-> "Design", check_name |-> FALSE],
    [pattern |-> [alts |-> {"screenshot"}, ext |-> FALSE],
     dest |-> "Images/Screenshots/{year}", name |-> "Screenshots", check_name |-> TRUE],
    [pattern |-> [alts |-> {"app", "exe", "msi", "pkg"}, ext |-> TRUE],
     dest |-> "Applications/{year}", name |-> "Applications", check_name |-> FALSE],
    [pattern |-> [alts |-> {"ttf", "otf", "woff", "woff2"}, ext |-> TRUE],
     dest |-> "Fonts", name |-> "Fonts", check_name |-> FALSE]
  >>

\* the category table of FileClassifier._classify_from_keywords, in declared order
photo_categories ==
  <<
    [category |-> "Wildlife",
     keywords |-> <<"wildlife", "bird", "eagle", "hawk", "owl", "bear", "deer", "fox", "animal">>],
    [category |-> "Weddings",
     keywords |-> <<"wedding", "bride", "groom", "ceremony", "reception">>],
    [category |-> "Sports",
     keywords |-> <<"sports", "racing", "football", "soccer", "basketball", "tennis">>],
    [category |-> "Portraits",
     keywords |-> <<"portrait", "headshot", "people", "person", "face", "model">>],
    [category |-> "Landscapes",
     keywords |-> <<"landscape", "scenery", "mountain", "beach", "sunset", "sunrise">>],
    [category |-> "Pets",
     keywords |-> <<"pet", "dog", "cat", "puppy", "kitten">>]
  >>

(***************************************************************************)
(* FileInfo records                                                        *)
(***************************************************************************)
\* Optional[str] = None
None == "<None>"

\* FileScanner._process_file: the record of a scanned file, before
\* classification (dataclass defaults for the classification fields)
FileInfo(path, size, modified, keywords, file_hash) ==
  [ path         |-> path,
    name         |-> basename(path),
    size         |-> size,
    extension    |-> lower(suffix(basename(path))),
    modified     |-> modified,
    destination  |-> "",
    confidence   |-> "medium",
    source       |-> "rule",
    reasoning    |-> "",
    keywords     |-> keywords,
    file_hash    |-> file_hash,
    is_duplicate |-> FALSE,
    duplicate_of |-> None,
    is_photo     |-> lower(suffix(basename(path))) \in PHOTO_EXTENSIONS ]

\* file_info.modified.strftime('%Y')
year_of(file_info) == str(file_info.modified)

RECURSIVE join(_, _)
\* sep.join(lst)
join(sep, lst) ==
  IF Len(lst) = 0 THEN ""
  ELSE IF Len(lst) = 1 THEN lst[1]
  ELSE lst[1] \o sep \o join(sep, Tail(lst))

(***************************************************************************)
(* FileClassifier: the duplicate pre-pass                                  *)
(***************************************************************************)
RECURSIVE detect_duplicates_latest(_, _, _)
\* a variant that keeps the latest record of a hash in hash_map
detect_duplicates_latest(fs, k, hash_map) ==
  IF k > Len(fs) THEN fs
  ELSE IF fs[k].file_hash = "" THEN detect_duplicates_latest(fs, k + 1, hash_map)
  ELSE IF fs[k].file_hash \in DOMAIN hash_map
       THEN detect_duplicates_latest(
              [fs EXCEPT ![k].is_duplicate = TRUE,
                         ![k].duplicate_of = fs[hash_map[fs[k].file_hash]].path],
              k + 1, [hash_map EXCEPT ![fs[k].file_hash] = k])
       ELSE detect_duplicates_latest(fs, k + 1, hash_map @@ (fs[k].file_hash :> k))

RECURSIVE detect_duplicates_any_hash(_, _, _)
\* a variant that takes the empty string for a hash like any other
detect_duplicates_any_hash(fs, k, hash_map) ==
  IF k > Len(fs) THEN fs
  ELSE IF fs[k].file_hash \in DOMAIN hash_map
       THEN detect_duplicates_any_hash(
              [fs EXCEPT ![k].is_duplicate = TRUE,
                         ![k].duplicate_of = fs[hash_map[fs[k].file_hash]].path],
              k + 1, hash_map)
       ELSE detect_duplicates_any_hash(fs, k + 1, hash_map @@ (fs[k].file_hash :> k))

RECURSIVE detect_duplicates_from(_, _, _)
\* the loop of _detect_duplicates from record k on; hash_map maps a hash to
\* the index of the record that first carried it
detect_duplicates_from(fs, k, hash_map) ==
  IF k > Len(fs) THEN fs
  ELSE IF fs[k].file_hash = "" THEN detect_duplicates_from(fs, k + 1, hash_map)
  ELSE IF fs[k].file_hash \in DOMAIN hash_map
       THEN detect_duplicates_from(
              [fs EXCEPT ![k].is_duplicate = TRUE,
                         ![k].duplicate_of = fs[hash_map[fs[k].file_hash]].path],
              k + 1, hash_map)
       ELSE detect_duplicates_from(fs, k + 1, hash_map @@ (fs[k].file_hash :> k))

detect_duplicates(fs) == detect_duplicates_from(fs, 1, <<>>)

(***************************************************************************)
(* FileClassifier: the steps of the local pipeline                         *)
(***************************************************************************)
\* the duplicate branch of run
classify_duplicate(file_info) ==
  [file_info EXCEPT
     !.destination = "_Duplicates",
     !.confidence  = "high",
     !.source      = "hash",
     !.reasoning   = "Duplicate of " \o
                     (IF file_info.duplicate_of # None
                      THEN basename(file_info.duplicate_of) ELSE "unknown")]

\* any(kw in keywords for kw in category_keywords), keywords a list
category_matches(category_keywords, keywords) ==
  \E i \in 1..Len(category_keywords) : InList(category_keywords[i], keywords)

classify_from_keywords(file_info) ==
  LET keywords     == [i \in 1..Len(file_info.keywords) |-> lower(file_info.keywords[i])]
      keywords_str == join(", ", file_info.keywords)
      year         == year_of(file_info)
      hits         == {c \in 1..Len(photo_categories) :
                         category_matches(photo_categories[c].keywords, keywords)}
  IN  IF hits # {}
      THEN LET c == CHOOSE c \in hits : \A d \in hits : c <= d
           IN  [file_info EXCEPT
                  !.destination = "Photos/" \o photo_categories[c].category \o "/" \o year,
                  !.confidence  = "high",
                  !.source      = "keywords",
                  !.reasoning   = "From keywords: " \o keywords_str]
      ELSE [file_info EXCEPT
              !.destination = "Photos/General/" \o year,
              !.confidence  = "medium",
              !.source      = "keywords",
              !.reasoning   = "Has keywords: " \o keywords_str]

\* the text a rule is matched against
text_to_check(rule, file_info) ==
  IF rule.check_name THEN lower(file_info.name) ELSE file_info.extension

\* the rules of the table that match the record
matching_rules(rules, file_info) ==
  {r \in 1..Len(rules) : re_search(rules[r].pattern, text_to_check(rules[r], file_info))}

\* a variant in which the last matching rule wins
rule_applied_last(rules, file_info) ==
  LET m == matching_rules(rules, file_info)
  IN  IF m = {} THEN 0 ELSE CHOOSE r \in m : \A q \in m : r >= q

\* the index of the rule _classify_by_rules applies (0: none, it returns False)
rule_applied(rules, file_info) ==
  LET m == matching_rules(rules, file_info)
  IN  IF m = {} THEN 0 ELSE CHOOSE r \in m : \A q \in m : r <= q

classify_by_rules(rules, file_info) ==
  LET r == rule_applied(rules, file_info)
  IN  IF r = 0 THEN file_info
      ELSE [file_info EXCEPT
              !.destination = replace(rules[r].dest, "{year}", year_of(file_info)),
              !.confidence  = "high",
              !.source      = "rule",
              !.reasoning   = "Matched rule '" \o rules[r].name \o "'"]

classify_photo(file_info) ==
  LET year       == year_of(file_info)
      name_lower == lower(file_info.name)
  IN  IF \E x \in {"screenshot", "screen shot", "screen_shot"} : Contains(x, name_lower)
      THEN [file_info EXCEPT
              !.destination = "Photos/Screenshots/" \o year,
              !.confidence  = "high",
              !.source      = "rule",
              !.reasoning   = "Filename indicates screenshot"]
      ELSE [file_info EXCEPT
              !.destination = "Photos/Uncategorized/" \o year,
              !.confidence  = "low",
              !.source      = "vision",
              !.reasoning   = "Photo file - Vision AI would classify content"]

\* the else branch of run
classify_fallback(file_info) ==
  [file_info EXCEPT
     !.destination = "Unsorted/" \o year_of(file_info),
     !.confidence  = "low",
     !.source      = "rule",
     !.reasoning   = "No matching rule found"]

\* a variant that consults the rule table before the keywords
step_taken_rules_first(file_info, opts) ==
  IF file_info.is_duplicate THEN 1
  ELSE IF rule_applied(build_rules, file_info) # 0 THEN 3
  ELSE IF Len(file_info.keywords) > 0 /\ opts.trust_level = "trust" THEN 2
  ELSE IF file_info.is_photo /\ opts.photo_mode THEN 4
  ELSE 5

\* which branch of the if/elif chain of run a record takes
\* (1 duplicate, 2 keywords, 3 rule table, 4 photo, 5 fallback)
step_taken(file_info, opts) ==
  IF file_info.is_duplicate THEN 1
  ELSE IF Len(file_info.keywords) > 0 /\ opts.trust_level = "trust" THEN 2
  ELSE IF rule_applied(build_rules, file_info) # 0 THEN 3
  ELSE IF file_info.is_photo /\ opts.photo_mode THEN 4
  ELSE 5

\* the body of the for loop of run for one record
classify_record(file_info, opts) ==
  LET k == step_taken(file_info, opts)
  IN  IF k = 1 THEN classify_duplicate(file_info)
      ELSE IF k = 2 THEN classify_from_keywords(file_info)
      ELSE IF k = 3 THEN classify_by_rules(build_rules, file_info)
      ELSE IF k = 4 THEN classify_photo(file_info)
      ELSE classify_fallback(file_info)

(***************************************************************************)
(* FileClassifier._classify_batch_with_llm                                 *)
(*                                                                         *)
(* The reply of the service, after JSON parsing, is one of                 *)
(*   [kind |-> "error"]    the request, the decoding or json.loads raised  *)
(*   [kind |-> "notlist"]  valid JSON that is not a list                   *)
(*   [kind |-> "list", items |-> <<entry, ...>>]                           *)
(* An entry is [obj, keys, filename, destination, confidence, conf_is_str, *)
(* reasoning]: obj says whether it is a JSON object, keys which of its     *)
(* keys are present, conf_is_str whether its confidence is a JSON string.  *)
(***************************************************************************)
\* the entries that get into cls_map
usable(c) == c.obj /\ "filename" \in c.keys /\ "destination" \in c.keys

\* cls_map: a later entry of a file name replaces an earlier one
cls_map_of(items) ==
  [n \in {items[j].filename : j \in {j \in 1..Len(items) : usable(items[j])}} |->
     items[CHOOSE j \in 1..Len(items) :
             /\ usable(items[j]) /\ items[j].filename = n
             /\ \A q \in (j+1)..Len(items) : ~(usable(items[q]) /\ items[q].filename = n)]]

\* {'high': HIGH, 'medium': MEDIUM, 'low': LOW}.get(conf_str, MEDIUM)
confidence_of(conf_str) ==
  IF conf_str \in {"high", "medium", "low"} THEN conf_str ELSE "medium"

RECURSIVE apply_classifications(_, _, _, _)
\* the loop `for f in batch` from position k on.  batch holds indices into fs
\* (the batch and self.files share the FileInfo objects).  A confidence that
\* is not a string raises in .lower(), after the destination was assigned:
\* the except clause ends the loop there.
apply_classifications(fs, batch, k, cls_map) ==
  IF k > Len(batch) THEN fs
  ELSE LET f == fs[batch[k]]
       IN  IF f.name \notin DOMAIN cls_map
           THEN apply_classifications(fs, batch, k + 1, cls_map)
           ELSE LET c  == cls_map[f.name]
                    f1 == [f EXCEPT !.destination = c.destination]
                IN  IF "confidence" \in c.keys /\ ~c.conf_is_str
                    THEN [fs EXCEPT ![batch[k]] = f1]
                    ELSE apply_classifications(
                           [fs EXCEPT ![batch[k]] =
                              [f1 EXCEPT
                                 !.confidence = confidence_of(
                                    lower(IF "confidence" \in c.keys
                                          THEN c.confidence ELSE "medium")),
                                 !.source     = "llm",
                                 !.reasoning  = IF "reasoning" \in c.keys
                                                THEN c.reasoning
                                                ELSE "Classified by AI"]],
                           batch, k + 1, cls_map)

\* a variant that goes over every record of the list, not over the batch
classify_all_with_llm(fs, batch, response) ==
  IF response.kind # "list" THEN fs
  ELSE apply_classifications(fs, [i \in 1..Len(fs) |-> i], 1, cls_map_of(response.items))

classify_batch_with_llm(fs, batch, response) ==
  IF response.kind # "list" THEN fs
  ELSE apply_classifications(fs, batch, 1, cls_map_of(response.items))

\* whether the loop body raises for the record at position k of the batch
raises_at(fs, batch, k, cls_map) ==
  /\ fs[batch[k]].name \in DOMAIN cls_map
  /\ "confidence" \in cls_map[fs[batch[k]].name].keys
  /\ ~cls_map[fs[batch[k]].name].conf_is_str

\* the records (indices into fs) whose destination the loop assigns: those
\* found in cls_map, up to the first one the loop body raises for
assigned(fs, batch, response) ==
  IF response.kind # "list" THEN {}
  ELSE LET cls_map == cls_map_of(response.items)
       IN  { batch[k] : k \in { k \in 1..Len(batch) :
               /\ fs[batch[k]].name \in DOMAIN cls_map
               /\ \A j \in 1..(k - 1) : ~raises_at(fs, batch, j, cls_map) } }

(***************************************************************************)
(* The file system the executor works on: a function from the paths that   *)
(* exist to what is there, IsDir for a directory, else the file's bytes    *)
(***************************************************************************)
IsDir == "<dir>"
Partial == "<partial>"

exists(fsys, p) == p \in DOMAIN fsys

RECURSIVE ancestors(_)
\* a path and its parents up to the first component
ancestors(p) == IF parent(p) = "" THEN {p} ELSE {p} \cup ancestors(parent(p))

\* a variant without exist_ok: whatever is at the path is in the way
mkdir_raises_exclusive(fsys, p) ==
  exists(fsys, p) \/ \E a \in ancestors(p) : exists(fsys, a) /\ fsys[a] # IsDir

\* Path.mkdir(parents=True, exist_ok=True): FileExistsError or
\* NotADirectoryError when the path or one of its parents is a file
mkdir_raises(fsys, p) == \E a \in ancestors(p) : exists(fsys, a) /\ fsys[a] # IsDir

mkdir(fsys, p) ==
  [q \in DOMAIN fsys \cup ancestors(p) |-> IF q \in ancestors(p) THEN IsDir ELSE fsys[q]]

RECURSIVE first_free(_, _, _, _, _)
\* the while loop of the conflict handling: counter counts up from 1
first_free(fsys, dir, stem_, suffix_, counter) ==
  LET candidate == dir \o "/" \o stem_ \o "_" \o str(counter) \o suffix_
  IN  IF exists(fsys, candidate)
      THEN first_free(fsys, dir, stem_, suffix_, counter + 1)
      ELSE candidate

\* a variant without the conflict handling
resolve_conflict_none(fsys, dest) == dest

\* "Handle filename conflicts": the path the file is written to
resolve_conflict(fsys, dest) ==
  IF exists(fsys, dest)
  THEN first_free(fsys, parent(dest), stem(basename(dest)), suffix(basename(dest)), 1)
  ELSE dest

\* a variant that removes the source whatever the action
transfer_removes_source(fsys, action, src, dest) ==
  [q \in (DOMAIN fsys \cup {dest}) \ {src} |-> IF q = dest THEN fsys[src] ELSE fsys[q]]

\* shutil.move / shutil.copy2 of an existing file to a free path
transfer(fsys, action, src, dest) ==
  IF action = "move"
  THEN [q \in (DOMAIN fsys \cup {dest}) \ {src} |-> IF q = dest THEN fsys[src] ELSE fsys[q]]
  ELSE [q \in DOMAIN fsys \cup {dest} |-> IF q = dest THEN fsys[src] ELSE fsys[q]]

\* a copy that broke off after the destination file was created
transfer_partial(fsys, dest) ==
  [q \in DOMAIN fsys \cup {dest} |-> IF q = dest THEN Partial ELSE fsys[q]]

\* a variant in which a failed move ends the loop
after_move_abort(ok) == IF ok THEN "moves" ELSE "emit"

\* where run goes after a move was handled: the except clause records the
\* failure and the loop goes on
after_move(ok) == "moves"

(***************************************************************************)
(* FileOrganizerPro._create_plan                                           *)
(***************************************************************************)
\* set(f.destination for f in self.files if f.destination)
destinations(fs) == {fs[i].destination : i \in {i \in 1..Len(fs) : fs[i].destination # ""}}

\* list(set(...)): the distinct destinations in some order
folder_lists(fs) ==
  {l \in [1..Cardinality(destinations(fs)) -> destinations(fs)] :
     \A i, j \in DOMAIN l : i # j => l[i] # l[j]}

RECURSIVE sum_sizes(_)
sum_sizes(fs) == IF Len(fs) = 0 THEN 0 ELSE fs[1].size + sum_sizes(Tail(fs))

\* the keys of a move in the order the dict literal gives them; file_hash is
\* added last, and only for a non-empty fingerprint
move_keys(move) ==
  <<"source", "destination", "filename", "size_bytes", "confidence",
    "classification_source", "reasoning", "is_duplicate", "duplicate_of">>
  \o (IF "file_hash" \in DOMAIN move THEN <<"file_hash">> ELSE <<>>)

move_dict(f) ==
  LET base ==
        [ source      |-> f.path,
          destination |-> IF f.destination # "" THEN f.destination \o "/" \o f.name
                          ELSE f.name,
          filename    |-> f.name,
          size_bytes  |-> f.size,
          confidence  |-> f.confidence,
          classification_source |-> f.source,
          reasoning   |-> f.reasoning,
          is_duplicate |-> f.is_duplicate,
          duplicate_of |-> f.duplicate_of ]
  IN  IF f.file_hash # "" THEN base @@ [file_hash |-> f.file_hash] ELSE base

\* VERSION
VERSION == "2.7.1"

\* datetime.now().isoformat() at the time the plan is built
created_at_now == "2024-05-01T10:00:00"

\* folders: the order list(set(...)) happened to give
create_plan(fs, source_input, target_input, action, folders, trust_level) ==
  [ fopplan_version |-> "1.0",
    created_by  |-> "FileOrganizerPro",
    created_at  |-> created_at_now,
    fop_version |-> VERSION,
    source_root |-> source_input,
    target_root |-> IF target_input # "" THEN target_input
                    ELSE source_input \o "_Organized",
    action      |-> action,
    statistics  |-> [ total_files       |-> Len(fs),
                      total_size_bytes  |-> sum_sizes(fs),
                      folders_to_create |-> Cardinality(destinations(fs)),
                      duplicates_flagged |->
                        Cardinality({i \in 1..Len(fs) : fs[i].is_duplicate}) ],
    folders     |-> folders,
    moves       |-> [i \in 1..Len(fs) |-> move_dict(fs[i])],
    options     |-> [ action            |-> action,
                      handle_duplicates |-> "move_to_duplicates_folder",
                      create_folders    |-> TRUE,
                      on_conflict       |-> "rename",
                      trust_level       |-> trust_level ] ]

(***************************************************************************)
(* OrganizationPlan.to_json: json.dumps(asdict(self), indent=2), and       *)
(* json.loads of such a text                                               *)
(***************************************************************************)
RECURSIVE spaces(_)
spaces(n) == IF n = 0 THEN "" ELSE " " \o spaces(n - 1)

\* a variant that writes every character as it is
escape_char_none(c) == c

\* json.dumps: a quote, a backslash and a newline inside a string are
\* written as \", \\ and \n
escape_char(c) ==
  IF c = "\"" THEN "\\\""
  ELSE IF c = "\\" THEN "\\\\"
  ELSE IF c = "\n" THEN "\\n"
  ELSE c

RECURSIVE escape(_)
\* every character of s escaped, the two halves of s one after the other
escape(s) ==
  IF Len(s) <= 1 THEN escape_char(s)
  ELSE LET half == Len(s) \div 2
       IN  escape(SubSeq(s, 1, half)) \o escape(SubSeq(s, half + 1, Len(s)))

dump_string(s) == "\"" \o escape(s) \o "\""

dump_int(n) == str(n)

dump_bool(b) == IF b THEN "true" ELSE "false"

\* an Optional[str]: None is written as null
dump_optional(v) == IF v = None THEN "null" ELSE dump_string(v)

RECURSIVE join_items(_, _)
\* indent=2: every item on a line of its own, "," between the items
join_items(items, level) ==
  IF Len(items) = 0 THEN ""
  ELSE "\n" \o spaces(2 * level) \o Head(items)
       \o (IF Len(items) > 1 THEN "," ELSE "")
       \o join_items(Tail(items), level)

dump_list(items, level) ==
  IF Len(items) = 0 THEN "[]"
  ELSE "[" \o join_items(items, level + 1) \o "\n" \o spaces(2 * level) \o "]"

dump_dict(members, level) ==
  IF Len(members) = 0 THEN "{}"
  ELSE "{" \o join_items(members, level + 1) \o "\n" \o spaces(2 * level) \o "}"

member(key, text) == dump_string(key) \o ": " \o text

\* the value of one key of a move, by the type _create_plan gave it
dump_move_value(move, key) ==
  CASE key = "size_bytes"   -> dump_int(move[key])
    [] key = "is_duplicate" -> dump_bool(move[key])
    [] key = "duplicate_of" -> dump_optional(move[key])
    [] OTHER                -> dump_string(move[key])

dump_move(move, level) ==
  LET keys == move_keys(move)
  IN  dump_dict([k \in 1..Len(keys) |-> member(keys[k], dump_move_value(move, keys[k]))],
                level)

dump_statistics(st, level) ==
  dump_dict(<< member("total_files", dump_int(st.total_files)),
               member("total_size_bytes", dump_int(st.total_size_bytes)),
               member("folders_to_create", dump_int(st.folders_to_create)),
               member("duplicates_flagged", dump_int(st.duplicates_flagged)) >>, level)

dump_options(o, level) ==
  dump_dict(<< member("action", dump_string(o.action)),
               member("handle_duplicates", dump_string(o.handle_duplicates)),
               member("create_folders", dump_bool(o.create_folders)),
               member("on_conflict", dump_string(o.on_conflict)),
               member("trust_level", dump_string(o.trust_level)) >>, level)

\* the fields of the dataclass in their declared order
to_json(p) ==
  dump_dict(<< member("fopplan_version", dump_string(p.fopplan_version)),
               member("created_by", dump_string(p.created_by)),
               member("created_at", dump_string(p.created_at)),
               member("fop_version", dump_string(p.fop_version)),
               member("source_root", dump_string(p.source_root)),
               member("target_root", dump_string(p.target_root)),
               member("action", dump_string(p.action)),
               member("statistics", dump_statistics(p.statistics, 1)),
               member("folders",
                 dump_list([i \in 1..Len(p.folders) |-> dump_string(p.folders[i])], 1)),
               member("moves",
                 dump_list([i \in 1..Len(p.moves) |-> dump_move(p.moves[i], 2)], 1)),
               member("options", dump_options(p.options, 1)) >>, 0)

\* --- json.loads: a recursive descent over the text, from position i
Fail == [ok |-> FALSE, value |-> "", next |-> 0]
Ok(v, i) == [ok |-> TRUE, value |-> v, next |-> i]

At(t, i) == IF i >= 1 /\ i <= Len(t) THEN Ch(t, i) ELSE ""

RECURSIVE skip_ws(_, _)
skip_ws(t, i) == IF At(t, i) \in {" ", "\n"} THEN skip_ws(t, i + 1) ELSE i

RECURSIVE plain_end(_, _)
\* the scanner's STRINGCHUNK: the first position from i on that holds a
\* quote or a backslash, or the position after the text, looked for in
\* stretches of eight characters
plain_end(t, i) ==
  LET stops == {j \in i..(i + 7) : At(t, j) \in {"\"", "\\", ""}}
  IN  IF stops = {} THEN plain_end(t, i + 8)
      ELSE CHOOSE j \in stops : \A k \in stops : j <= k

RECURSIVE scan_string(_, _)
\* from the character after the opening quote to the closing quote: a chunk
\* of plain characters, then the terminator or an escape and the rest
scan_string(t, i) ==
  LET j     == plain_end(t, i)
      chunk == SubSeq(t, i, j - 1)
      c     == At(t, j)
  IN  IF c = "" THEN Fail
      ELSE IF c = "\"" THEN Ok(chunk, j + 1)
      ELSE
        LET e    == At(t, j + 1)
            rest == scan_string(t, j + 2)
        IN  IF e \notin {"\"", "\\", "n"} THEN Fail
            ELSE IF ~rest.ok THEN Fail
            ELSE Ok(chunk \o (IF e = "n" THEN "\n" ELSE e) \o rest.value, rest.next)

IsDigit(c) == c # "" /\ Contains(c, DIGITS)

digit_value(c) == CHOOSE d \in 0..9 : Ch(DIGITS, d + 1) = c

RECURSIVE scan_int(_, _, _)
scan_int(t, i, acc) ==
  IF IsDigit(At(t, i)) THEN scan_int(t, i + 1, 10 * acc + digit_value(At(t, i)))
  ELSE Ok(acc, i)

Literal(t, i, word) == i + Len(word) - 1 <= Len(t) /\ SubSeq(t, i, i + Len(word) - 1) = word

RECURSIVE parse_value(_, _), parse_member(_, _), parse_members(_, _, _), parse_elements(_, _, _)
parse_value(t, i0) ==
  LET i == skip_ws(t, i0)
      c == At(t, i)
  IN  CASE c = "{" ->
             LET j == skip_ws(t, i + 1)
             IN  IF At(t, j) = "}" THEN Ok(<<>>, j + 1) ELSE parse_members(t, j, <<>>)
        [] c = "[" ->
             LET j == skip_ws(t, i + 1)
             IN  IF At(t, j) = "]" THEN Ok(<<>>, j + 1) ELSE parse_elements(t, j, <<>>)
        [] c = "\"" -> scan_string(t, i + 1)
        [] IsDigit(c) -> scan_int(t, i, 0)
        [] Literal(t, i, "true") -> Ok(TRUE, i + 4)
        [] Literal(t, i, "false") -> Ok(FALSE, i + 5)
        [] Literal(t, i, "null") -> Ok(None, i + 4)
        [] OTHER -> Fail

\* one member: "key", ":" and a value; next is the position of what follows
parse_member(t, i) ==
  LET key == scan_string(t, i + 1)
      j   == skip_ws(t, key.next)
      v   == parse_value(t, j + 1)
  IN  IF At(t, i) = "\"" /\ key.ok /\ At(t, j) = ":" /\ v.ok
      THEN Ok(<<key.value, v.value>>, skip_ws(t, v.next))
      ELSE Fail

\* a member, then "," and the next member, or "}"
parse_members(t, i, acc) ==
  LET m    == parse_member(t, i)
      acc2 == (m.value[1] :> m.value[2]) @@ acc
      c    == At(t, m.next)
  IN  CASE ~m.ok   -> Fail
        [] c = "," -> parse_members(t, skip_ws(t, m.next + 1), acc2)
        [] c = "}" -> Ok(acc2, m.next + 1)
        [] OTHER   -> Fail

\* a value, then "," and the next element, or "]"
parse_elements(t, i, acc) ==
  LET v    == parse_value(t, i)
      k    == skip_ws(t, v.next)
      acc2 == Append(acc, v.value)
      c    == At(t, k)
  IN  CASE ~v.ok   -> Fail
        [] c = "," -> parse_elements(t, k + 1, acc2)
        [] c = "]" -> Ok(acc2, k + 1)
        [] OTHER   -> Fail

\* json.loads: one value and nothing but white space after it; a text that
\* is not JSON raises (ok = FALSE)
json_loads(t) ==
  LET r == parse_value(t, 1)
  IN  IF r.ok /\ skip_ws(t, r.next) > Len(t) THEN [ok |-> TRUE, value |-> r.value]
      ELSE [ok |-> FALSE, value |-> ""]

(***************************************************************************)
(* State                                                                   *)
(***************************************************************************)
VARIABLES
  files,                   \* FileClassifier.files: the list of FileInfo
  options,                 \* FileClassifier.options: trust_level, use_llm, photo_mode
  cpc,                     \* where FileClassifier.run stands
  ci,                      \* the index of the for loop of run (from 1)
  unclassified,            \* run's list `unclassified`, as indices into files
  batch_start,             \* run's `start` of the batch loop (from 0)
  c_stop_requested,        \* FileClassifier._stop_requested
  classification_complete, \* the payloads emitted through classification_complete
  response,                \* the reply the last remote batch received
  batch_before,            \* files as they were when the last remote batch began
  requests,                \* the remote batches sent so far: the records of each, as
                           \* indices into files, and whether the request failed
  writes,                  \* per record, how often the local chain and how often a
                           \* remote batch has assigned its destination, and which
                           \* branch of the chain the loop took for it (0: none yet)
  plan,                    \* FileExecutor.plan
  fsys,                    \* the file system: path -> IsDir or the bytes of a file
  epc,                     \* where FileExecutor.run stands
  fi,                      \* the index of the folder loop of run (from 1)
  mi,                      \* the index of the move loop of run (from 1)
  succeeded,               \* run's counter `succeeded`
  failed,                  \* run's counter `failed`
  errors,                  \* run's list `errors`
  e_stop_requested,        \* FileExecutor._stop_requested
  execution_complete,      \* the payloads emitted through execution_complete
  fsys0,                   \* the file system when the run started
  exec_dialog,             \* what _on_exec_complete put into its message box
  attempts,                \* the moves handled so far: index, planned and final path,
                           \* the file system just before the write, outcome
  tree,                    \* the source tree the scanner walks: path -> node
  s_options,               \* FileScanner.options: max_files, include_subfolders, ...
  spc,                     \* where FileScanner.run stands
  stack,                   \* the active calls of _scan_directory, innermost last
  scanned,                 \* FileScanner.files
  s_stop_requested,        \* FileScanner._stop_requested
  scan_complete,           \* the payloads emitted through scan_complete
  scan_error,              \* the messages emitted through FileScanner.error
  seen_stop,               \* whether a stop test of the scanner has found the flag
                           \* set, and FileScanner.files as it was then
  json_text,               \* what to_json returned
  json_parsed,             \* what json.loads made of that text
  k_disk,                  \* the files catalog paths may name: path -> what is there
  catalogs,                \* MultiCatalogSearch.catalogs
  last_error,              \* MultiCatalogSearch.last_error
  k_call,                  \* the last call on the searcher and its arguments
  k_returned,              \* what add_catalog or remove_catalog returned
  k_results,               \* what search returned
  k_opened                 \* the catalogs the last call connected to, in order

jvars == <<json_text, json_parsed>>

kvars == <<k_disk, catalogs, last_error, k_call, k_returned, k_results, k_opened>>

svars == <<tree, s_options, spc, stack, scanned, s_stop_requested, scan_complete,
           scan_error, seen_stop>>

\* FileScanner.source_path
source_path == "/src"
cvars == <<files, options, cpc, ci, unclassified, batch_start, c_stop_requested,
           classification_complete, response, batch_before, requests, writes>>
evars == <<plan, fsys, epc, fi, mi, succeeded, failed, errors, e_stop_requested,
           execution_complete, fsys0, exec_dialog, attempts>>
vars == <<cvars, evars, svars, jvars, kvars>>

\* batch_size of FileClassifier.run
batch_size == 20

NoResponse == [kind |-> "none"]

(***************************************************************************)
(* Inputs of a classifier run                                              *)
(***************************************************************************)
\* the directory of the i-th scanned file: paths of one scan are distinct
scan_path(i, name) == "/s/d" \o str(i) \o "/" \o name

\* sample files: name, keywords, year of the modified time, fingerprint, size
SampleFiles ==
  { [name |-> "a.pdf",           keywords |-> <<>>,              modified |-> 2023, file_hash |-> "h1", size |-> 10],
    [name |-> "a.pdf",           keywords |-> <<"Birds">>,       modified |-> 2023, file_hash |-> "h1", size |-> 10],
    [name |-> "b.JPG",           keywords |-> <<"dog", "Bird">>, modified |-> 2024, file_hash |-> "h2", size |-> 20],
    [name |-> "c.xyz",           keywords |-> <<"misc">>,        modified |-> 2023, file_hash |-> "",   size |-> 30],
    [name |-> "c.xyz",           keywords |-> <<>>,              modified |-> 2024, file_hash |-> "h1", size |-> 10],
    [name |-> "Screen_Shot.png", keywords |-> <<>>,              modified |-> 2024, file_hash |-> "",   size |-> 40] }

\* the record lists a scan of n sample files delivers
ScanLists(n) ==
  { [i \in 1..n |-> FileInfo(scan_path(i, s[i].name), s[i].size, s[i].modified,
                             s[i].keywords, s[i].file_hash)] :
      s \in [1..n -> SampleFiles] }

\* the option bundles of _start_analysis
OptionSets ==
  [trust_level : {"trust", "verify", "ignore"}, use_llm : BOOLEAN, photo_mode : BOOLEAN]

(***************************************************************************)
(* Replies of the remote service to one batch                              *)
(***************************************************************************)
AllKeys == {"filename", "destination", "confidence", "reasoning"}

Entry(filename, keys, conf_is_str) ==
  [obj |-> TRUE, keys |-> keys, filename |-> filename,
   destination |-> "AI/" \o filename, confidence |-> "HIGH",
   conf_is_str |-> conf_is_str, reasoning |-> "looks like " \o filename]

\* a JSON value that is not an object
NotAnObject == [Entry("", {}, TRUE) EXCEPT !.obj = FALSE]

EntryKinds == {"absent", "full", "badconf", "nodest"}

\* the entries a reply holds for one file name
EntriesFor(n, kind) ==
  IF kind = "full" THEN <<Entry(n, AllKeys, TRUE)>>
  ELSE IF kind = "badconf" THEN <<Entry(n, AllKeys, FALSE)>>
  ELSE IF kind = "nodest" THEN <<Entry(n, {"filename", "confidence", "reasoning"}, TRUE)>>
  ELSE <<>>

RECURSIVE distinct_names(_, _)
\* the distinct file names of the records fs[batch[k]], in batch order
distinct_names(fs, batch) ==
  IF Len(batch) = 0 THEN <<>>
  ELSE LET rest == distinct_names(fs, SubSeq(batch, 1, Len(batch) - 1))
           n    == fs[batch[Len(batch)]].name
       IN  IF InList(n, rest) THEN rest ELSE Append(rest, n)

RECURSIVE items_for(_, _)
items_for(names, kinds) ==
  IF Len(names) = 0 THEN <<>>
  ELSE EntriesFor(Head(names), kinds[1]) \o
       items_for(Tail(names), [i \in 1..(Len(kinds) - 1) |-> kinds[i + 1]])

\* entries that come after those: none, or for a record outside the batch,
\* for an unknown file, without a filename, not an object, or a second entry
\* for a file of the batch (the later entry wins), with only the two keys
\* looked for or with an empty string for the destination
ExtraEntries(fs, batch) ==
  { <<>>, <<NotAnObject>>, <<Entry("other.bin", AllKeys, TRUE)>>,
    <<Entry(fs[batch[1]].name, {"destination", "confidence"}, TRUE)>>,
    <<Entry(fs[batch[1]].name, {"filename", "destination"}, TRUE)>>,
    <<[Entry(fs[batch[1]].name, AllKeys, TRUE) EXCEPT !.destination = ""]>> }
  \cup { <<Entry(fs[i].name, AllKeys, TRUE)>> :
           i \in {i \in 1..Len(fs) : \A k \in 1..Len(batch) : fs[batch[k]].name # fs[i].name} }

Responses(fs, batch) ==
  LET names == distinct_names(fs, batch)
  IN  { [kind |-> "error"], [kind |-> "notlist"] }
      \cup { [kind |-> "list", items |-> items_for(names, kinds) \o extra] :
               kinds \in [1..Len(names) -> EntryKinds], extra \in ExtraEntries(fs, batch) }

(***************************************************************************)
(* FileClassifier: stop and run                                            *)
(***************************************************************************)
ClassifierRunning == cpc \in {"start", "loop", "after_loop", "llm", "emit"}

\* FileClassifier.stop, called from the controlling thread
classifier_stop ==
  /\ ClassifierRunning
  /\ ~c_stop_requested
  /\ c_stop_requested' = TRUE
  /\ UNCHANGED <<files, options, cpc, ci, unclassified, batch_start,
                 classification_complete, response, batch_before, requests, writes,
                 evars, svars, jvars, kvars>>

\* run: options read, the duplicate pre-pass, the loop variables set up
run_begin ==
  /\ cpc = "start"
  /\ files' = detect_duplicates(files)
  /\ unclassified' = <<>>
  /\ ci' = 1
  /\ cpc' = "loop"
  /\ writes' = [i \in 1..Len(files) |-> [local |-> 0, remote |-> 0, step |-> 0]]
  /\ UNCHANGED <<options, batch_start, c_stop_requested, classification_complete,
                 response, batch_before, requests,
                 evars, svars, jvars, kvars>>

\* a variant of the iteration that does not look at the stop flag
run_classify_unstoppable ==
  /\ cpc = "loop"
  /\ ci <= Len(files)
  /\ files' = [files EXCEPT ![ci] = classify_record(files[ci], options)]
  /\ unclassified' = IF step_taken(files[ci], options) = 5 /\ options.use_llm
                     THEN Append(unclassified, ci) ELSE unclassified
  /\ ci' = ci + 1
  /\ writes' = [writes EXCEPT ![ci].local = @ + 1,
                             ![ci].step = step_taken(files[ci], options)]
  /\ UNCHANGED <<options, cpc, batch_start, c_stop_requested, classification_complete,
                 response, batch_before, requests,
                 evars, svars, jvars, kvars>>

\* one iteration of the for loop of run
run_classify ==
  /\ cpc = "loop"
  /\ ci <= Len(files)
  /\ ~c_stop_requested
  /\ files' = [files EXCEPT ![ci] = classify_record(files[ci], options)]
  /\ unclassified' = IF step_taken(files[ci], options) = 5 /\ options.use_llm
                     THEN Append(unclassified, ci) ELSE unclassified
  /\ ci' = ci + 1
  /\ writes' = [writes EXCEPT ![ci].local = @ + 1,
                             ![ci].step = step_taken(files[ci], options)]
  /\ UNCHANGED <<options, cpc, batch_start, c_stop_requested, classification_complete,
                 response, batch_before, requests,
                 evars, svars, jvars, kvars>>

\* the for loop ends: the list is exhausted, or the stop flag is seen (break)
run_loop_exit ==
  /\ cpc = "loop"
  /\ ci > Len(files) \/ c_stop_requested
  /\ cpc' = "after_loop"
  /\ UNCHANGED <<files, options, ci, unclassified, batch_start, c_stop_requested,
                 classification_complete, response, batch_before, requests, writes,
                 evars, svars, jvars, kvars>>

\* `if use_llm and unclassified and not self._stop_requested`
run_llm_guard ==
  /\ cpc = "after_loop"
  /\ IF options.use_llm /\ Len(unclassified) > 0 /\ ~c_stop_requested
     THEN cpc' = "llm" /\ batch_start' = 0
     ELSE cpc' = "emit" /\ UNCHANGED batch_start
  /\ UNCHANGED <<files, options, ci, unclassified, c_stop_requested,
                 classification_complete, response, batch_before, requests, writes,
                 evars, svars, jvars, kvars>>

\* a variant that takes everything from start on
batch_at_rest(start) == SubSeq(unclassified, start + 1, Len(unclassified))

\* unclassified[start:start + batch_size]
batch_at(start) ==
  SubSeq(unclassified, start + 1,
         IF start + batch_size < Len(unclassified)
         THEN start + batch_size ELSE Len(unclassified))

\* one iteration of the batch loop: one request, one reply out of those
\* the service may give
llm_batch(replies(_, _)) ==
  /\ cpc = "llm"
  /\ batch_start < Len(unclassified)
  /\ ~c_stop_requested
  /\ \E r \in replies(files, batch_at(batch_start)) :
       /\ response' = r
       /\ files' = classify_batch_with_llm(files, batch_at(batch_start), r)
       /\ requests' = Append(requests, [batch  |-> batch_at(batch_start),
                                        failed |-> r.kind = "error"])
       /\ writes' = [i \in 1..Len(files) |->
                       IF i \in assigned(files, batch_at(batch_start), r)
                       THEN [writes[i] EXCEPT !.remote = @ + 1] ELSE writes[i]]
  /\ batch_before' = files
  /\ batch_start' = batch_start + batch_size
  /\ UNCHANGED <<options, cpc, ci, unclassified, c_stop_requested,
                 classification_complete,
                 evars, svars, jvars, kvars>>

run_llm_batch == llm_batch(Responses)

\* the batch loop ends: no batch is left, or the stop flag is seen (break);
\* the last reply goes out of scope
run_llm_exit ==
  /\ cpc = "llm"
  /\ batch_start >= Len(unclassified) \/ c_stop_requested
  /\ cpc' = "emit"
  /\ response' = NoResponse
  /\ batch_before' = <<>>
  /\ UNCHANGED <<files, options, ci, unclassified, batch_start, c_stop_requested,
                 classification_complete, requests, writes,
                 evars, svars, jvars, kvars>>

\* self.classification_complete.emit(self.files)
run_complete ==
  /\ cpc = "emit"
  /\ classification_complete' = Append(classification_complete, files)
  /\ cpc' = "done"
  /\ UNCHANGED <<files, options, ci, unclassified, batch_start, c_stop_requested,
                 response, batch_before, requests, writes,
                 evars, svars, jvars, kvars>>

(***************************************************************************)
(* FileExecutor: stop and run                                              *)
(***************************************************************************)
ExecutorRunning == epc \in {"start", "folders", "moves", "emit"}

\* FileExecutor.stop, called from the cancel button
executor_stop ==
  /\ ExecutorRunning
  /\ ~e_stop_requested
  /\ e_stop_requested' = TRUE
  /\ UNCHANGED <<plan, fsys, epc, fi, mi, succeeded, failed, errors,
                 execution_complete, fsys0, exec_dialog, attempts, cvars, svars, jvars, kvars>>

\* run: the locals set up
exec_begin ==
  /\ epc = "start"
  /\ succeeded' = 0
  /\ failed' = 0
  /\ errors' = <<>>
  /\ fi' = 1
  /\ epc' = "folders"
  /\ UNCHANGED <<plan, fsys, mi, e_stop_requested, execution_complete, fsys0, exec_dialog,
                 attempts, cvars, svars, jvars, kvars>>

\* one iteration of "Create all destination folders".  The mkdir is outside
\* every try: when it raises (a file in the way, or the system refuses to
\* create the folder: permissions, disk) the exception leaves run.  With
\* exist_ok a folder that is already there is not created and not refused.
exec_mkdir ==
  /\ epc = "folders"
  /\ fi <= Len(plan.folders)
  /\ LET folder_path == plan.target_root \o "/" \o plan.folders[fi]
     IN  \E refused \in BOOLEAN :
           /\ refused => ~(exists(fsys, folder_path) /\ fsys[folder_path] = IsDir)
           /\ IF refused \/ mkdir_raises(fsys, folder_path)
              THEN epc' = "crashed" /\ UNCHANGED <<fsys, fi>>
              ELSE fsys' = mkdir(fsys, folder_path) /\ fi' = fi + 1 /\ UNCHANGED epc
  /\ UNCHANGED <<plan, mi, succeeded, failed, errors, e_stop_requested,
                 execution_complete, fsys0, exec_dialog, attempts, cvars, svars, jvars, kvars>>

\* the folder loop is through: on to the move loop
exec_folders_done ==
  /\ epc = "folders"
  /\ fi > Len(plan.folders)
  /\ mi' = 1
  /\ epc' = "moves"
  /\ UNCHANGED <<plan, fsys, fi, succeeded, failed, errors, e_stop_requested,
                 execution_complete, fsys0, exec_dialog, attempts, cvars, svars, jvars, kvars>>

\* a variant that never looks at the stop flag
break_never(stop_requested) == FALSE

\* `if self._stop_requested: break` at the head of the move loop
break_on_stop(stop_requested) == stop_requested

\* the keys of a move the loop reads: move['source'], move['destination'],
\* move['filename']
required_keys == {"source", "destination", "filename"}

has_required(move) == required_keys \subseteq DOMAIN move

\* one iteration of the move loop.  The three lookups come before the try: a
\* missing key is a KeyError that leaves run.  outcome is what the file system
\* does with the transfer: "ok", "fail" (nothing written; the only outcome when
\* the source is not there) or "partial" (the destination was created, then the
\* transfer broke off; the source stays).
exec_move ==
  /\ epc = "moves"
  /\ mi <= Len(plan.moves)
  /\ ~break_on_stop(e_stop_requested)
  /\ IF ~has_required(plan.moves[mi])
     THEN /\ epc' = "crashed"
          /\ UNCHANGED <<fsys, mi, succeeded, failed, errors, attempts>>
     ELSE
     LET move     == plan.moves[mi]
         src      == move.source
         dest0    == plan.target_root \o "/" \o move.destination
         filename == move.filename
     IN  \E outcome \in {"ok", "fail", "partial"} :
           LET raised == mkdir_raises(fsys, parent(dest0))
               fs1    == IF raised THEN fsys ELSE mkdir(fsys, parent(dest0))
               dest   == resolve_conflict(fs1, dest0)
               ok     == ~raised /\ outcome = "ok"
           IN  /\ outcome # "fail" => raised \/ (exists(fs1, src) /\ fs1[src] # IsDir)
               /\ fsys' = IF raised \/ outcome = "fail" THEN fs1
                          ELSE IF outcome = "partial" THEN transfer_partial(fs1, dest)
                          ELSE transfer(fs1, plan.action, src, dest)
               /\ succeeded' = IF ok THEN succeeded + 1 ELSE succeeded
               /\ failed' = IF ok THEN failed ELSE failed + 1
               /\ errors' = IF ok THEN errors ELSE Append(errors, filename \o ": error")
               /\ attempts' = Append(attempts,
                    [ index |-> mi, planned |-> dest0, path |-> dest,
                      before |-> fs1, ok |-> ok,
                      wrote |-> ~raised /\ outcome # "fail" ])
               /\ epc' = after_move(ok)
               /\ mi' = mi + 1
  /\ UNCHANGED <<plan, fi, e_stop_requested, execution_complete, fsys0, exec_dialog, cvars, svars, jvars, kvars>>

\* the move loop ends: the plan is exhausted, or the stop flag is seen (break)
exec_loop_exit ==
  /\ epc = "moves"
  /\ mi > Len(plan.moves) \/ break_on_stop(e_stop_requested)
  /\ epc' = "emit"
  /\ UNCHANGED <<plan, fsys, fi, mi, succeeded, failed, errors, e_stop_requested,
                 execution_complete, fsys0, exec_dialog, attempts, cvars, svars, jvars, kvars>>

\* self.execution_complete.emit(succeeded, failed, errors)
exec_complete ==
  /\ epc = "emit"
  /\ execution_complete' = Append(execution_complete,
       [succeeded |-> succeeded, failed |-> failed, errors |-> errors])
  /\ epc' = "done"
  /\ UNCHANGED <<plan, fsys, fi, mi, succeeded, failed, errors, e_stop_requested,
                 fsys0, exec_dialog, attempts, cvars, svars, jvars, kvars>>

(***************************************************************************)
(* FileScanner: the source tree, stop and run                              *)
(***************************************************************************)
\* a node of the source tree.  kind: "file" or "dir"; items: the names
\* iterdir lists, in its order; listing: what iterdir does ("ok",
\* "PermissionError", "OSError"); check: what handling the entry runs into
\* ("ok", "type_check_raises", "stat_raises", "metadata_raises",
\* "hash_raises"); keywords: what the metadata of the file holds
Node(kind, items, listing, check, keywords) ==
  [kind |-> kind, items |-> items, listing |-> listing, check |-> check,
   keywords |-> keywords]

child(path, name) == path \o "/" \o name

\* item.name.startswith('.')
hidden(name) == StartsWith(name, ".")

\* MetadataReader.read_metadata: its own except clause leaves the defaults
read_metadata(node) == IF node.check = "metadata_raises" THEN <<>> ELSE node.keywords

\* _calculate_hash: the digest, or "" from its except clause
calculate_hash(path, node) ==
  IF node.check = "hash_raises" THEN "" ELSE "md5 of " \o path

\* _process_file returns None: filepath.stat() raised into the bare except
process_file_none(node) == node.check = "stat_raises"

\* _process_file: the record it returns otherwise
process_file(path, node, opts) ==
  FileInfo(path, 1, 2023,
           IF opts.read_keywords THEN read_metadata(node) ELSE <<>>,
           IF opts.detect_duplicates THEN calculate_hash(path, node) ELSE "")

\* a variant of the stop test that never finds the flag set
stop_test_never(stop_requested) == FALSE

\* `if self._stop_requested` at the head of a call and of an iteration
stop_test(stop_requested) == stop_requested

\* a variant of the cap test that lets one record too many through
cap_reached_late(count, max_files) == count > max_files

\* `len(self.files) >= max_files`
cap_reached(count, max_files) == count >= max_files

\* a call of _scan_directory: before and after items = list(path.iterdir()),
\* the index of the for loop (from 1), and whether the test at the head of
\* the iteration has been passed
Call(path) == [path |-> path, entered |-> FALSE, idx |-> 0, checked |-> FALSE]

top == stack[Len(stack)]

top_items == tree[top.path].items

ScannerRunning == spc \in {"start", "scan", "emit", "except"}

\* FileScanner.stop
scanner_stop ==
  /\ ScannerRunning
  /\ ~s_stop_requested
  /\ s_stop_requested' = TRUE
  /\ UNCHANGED <<tree, s_options, spc, stack, scanned, scan_complete, scan_error,
                 seen_stop, cvars, evars, jvars, kvars>>

\* run: self._scan_directory(self.source_path)
scan_begin ==
  /\ spc = "start"
  /\ stack' = <<Call(source_path)>>
  /\ spc' = "scan"
  /\ UNCHANGED <<tree, s_options, scanned, s_stop_requested, scan_complete,
                 scan_error, seen_stop, cvars, evars, jvars, kvars>>

\* `return` from the innermost call; the outermost returns into run
scan_return ==
  /\ stack' = SubSeq(stack, 1, Len(stack) - 1)
  /\ spc' = IF Len(stack) = 1 THEN "emit" ELSE "scan"

\* an exception nobody catches in _scan_directory: it unwinds every call and
\* arrives in the except clause of run
scan_raise ==
  /\ stack' = <<>>
  /\ spc' = "except"

\* the `return` the stop flag causes: from here on the flag has been seen
saw_stop == [seen |-> TRUE, files |-> scanned]

\* the head of _scan_directory: the stop test, then list(path.iterdir()),
\* of which only PermissionError is caught
scan_enter ==
  /\ spc = "scan"
  /\ ~top.entered
  /\ IF stop_test(s_stop_requested)
     THEN scan_return /\ seen_stop' = IF seen_stop.seen THEN seen_stop ELSE saw_stop
     ELSE /\ seen_stop' = seen_stop
          /\ CASE tree[top.path].listing = "PermissionError" -> scan_return
               [] tree[top.path].listing = "OSError" -> scan_raise
               [] OTHER ->
                    /\ stack' = [stack EXCEPT ![Len(stack)] =
                                   [@ EXCEPT !.entered = TRUE, !.idx = 1]]
                    /\ UNCHANGED spc
  /\ UNCHANGED <<tree, s_options, scanned, s_stop_requested, scan_complete,
                 scan_error, cvars, evars, jvars, kvars>>

\* the head of one iteration:
\* `if self._stop_requested or len(self.files) >= max_files: return`
scan_check ==
  /\ spc = "scan"
  /\ top.entered /\ ~top.checked
  /\ top.idx <= Len(top_items)
  /\ IF stop_test(s_stop_requested) \/ cap_reached(Len(scanned), s_options.max_files)
     THEN /\ scan_return
          /\ seen_stop' = IF stop_test(s_stop_requested) /\ ~seen_stop.seen
                          THEN saw_stop ELSE seen_stop
     ELSE /\ stack' = [stack EXCEPT ![Len(stack)].checked = TRUE]
          /\ UNCHANGED <<spc, seen_stop>>
  /\ UNCHANGED <<tree, s_options, scanned, s_stop_requested, scan_complete,
                 scan_error, cvars, evars, jvars, kvars>>

\* the body of one iteration: a file is processed and, unless _process_file
\* gave None, appended; a directory is scanned by a nested call
scan_item ==
  /\ spc = "scan"
  /\ top.entered /\ top.checked
  /\ LET name == top_items[top.idx]
         item == child(top.path, name)
         node == tree[item]
         next == [stack EXCEPT ![Len(stack)] =
                    [@ EXCEPT !.idx = @ + 1, !.checked = FALSE]]
     IN  IF node.check = "type_check_raises"
         THEN scan_raise /\ UNCHANGED scanned
         ELSE IF node.kind = "file" /\ ~hidden(name)
         THEN /\ scanned' = IF process_file_none(node) THEN scanned
                            ELSE Append(scanned, process_file(item, node, s_options))
              /\ stack' = next
              /\ UNCHANGED spc
         ELSE IF node.kind = "dir" /\ s_options.include_subfolders /\ ~hidden(name)
         THEN /\ stack' = Append(next, Call(item))
              /\ UNCHANGED <<spc, scanned>>
         ELSE /\ stack' = next
              /\ UNCHANGED <<spc, scanned>>
  /\ UNCHANGED <<tree, s_options, s_stop_requested, scan_complete, scan_error,
                 seen_stop, cvars, evars, jvars, kvars>>

\* the for loop of a call is through
scan_loop_end ==
  /\ spc = "scan"
  /\ top.entered
  /\ top.idx > Len(top_items)
  /\ scan_return
  /\ UNCHANGED <<tree, s_options, scanned, s_stop_requested, scan_complete,
                 scan_error, seen_stop, cvars, evars, jvars, kvars>>

\* run: self.scan_complete.emit(self.files)
scan_emit ==
  /\ spc = "emit"
  /\ scan_complete' = Append(scan_complete, scanned)
  /\ spc' = "done"
  /\ UNCHANGED <<tree, s_options, stack, scanned, s_stop_requested, scan_error,
                 seen_stop, cvars, evars, jvars, kvars>>

\* run: `except Exception as e: self.error.emit(str(e))`
scan_except ==
  /\ spc = "except"
  /\ scan_error' = Append(scan_error, "error")
  /\ spc' = "done"
  /\ UNCHANGED <<tree, s_options, stack, scanned, s_stop_requested, scan_complete,
                 seen_stop, cvars, evars, jvars, kvars>>

\* the number of error strings the completion dialog lists: errors[:10]
error_display_cap == 10

\* FileOrganizerPro._on_exec_complete, the slot of execution_complete: the
\* message of the dialog, as its parts (more = 0: no "...and N more" line)
on_exec_complete ==
  /\ epc = "done"
  /\ ~exec_dialog.shown
  /\ Len(execution_complete) > 0
  /\ LET payload == execution_complete[Len(execution_complete)]
         listing == payload.failed # 0 /\ Len(payload.errors) > 0
     IN  exec_dialog' =
           [ shown     |-> TRUE,
             succeeded |-> payload.succeeded,
             failed    |-> payload.failed,
             listed    |-> IF listing
                           THEN SubSeq(payload.errors, 1,
                                  IF Len(payload.errors) > error_display_cap
                                  THEN error_display_cap ELSE Len(payload.errors))
                           ELSE <<>>,
             more      |-> IF listing /\ Len(payload.errors) > error_display_cap
                           THEN Len(payload.errors) - error_display_cap ELSE 0 ]
  /\ UNCHANGED <<plan, fsys, epc, fi, mi, succeeded, failed, errors, e_stop_requested,
                 execution_complete, fsys0, attempts, cvars, svars, jvars, kvars>>

(***************************************************************************)
(* catalog_search.py: MultiCatalogSearch                                   *)
(*                                                                         *)
(* k_disk maps a path to what is there:                                    *)
(*   "other"    a file that is not an SQLite database                      *)
(*   "notable"  a database without the table AgLibraryFile                 *)
(*   "partial"  a database with AgLibraryFile but without the joined tables*)
(*   "catalog"  a Lightroom catalog; rows holds its idx_filename column    *)
(* A path outside the domain does not exist.                               *)
(***************************************************************************)
\* Path.exists()
path_exists(disk, p) == p \in DOMAIN disk

\* str.strip() of white space
RECURSIVE lstrip(_), rstrip(_)
lstrip(s) == IF s # "" /\ Head(s) \in {" ", "\t", "\n"} THEN lstrip(Tail(s)) ELSE s
rstrip(s) ==
  IF s # "" /\ Ch(s, Len(s)) \in {" ", "\t", "\n"} THEN rstrip(SubSeq(s, 1, Len(s) - 1))
  ELSE s
strip(s) == rstrip(lstrip(s))

RECURSIVE like(_, _)
\* SQLite's LIKE: % any run of characters, _ any one character, letters
\* compared without regard to case
like(pattern, text) ==
  IF pattern = "" THEN text = ""
  ELSE IF Head(pattern) = "%"
       THEN like(Tail(pattern), text) \/ (text # "" /\ like(pattern, Tail(text)))
       ELSE /\ text # ""
            /\ Head(pattern) = "_" \/ LowerChar(Head(pattern)) = LowerChar(Head(text))
            /\ like(Tail(pattern), Tail(text))

\* the WHERE clause of the three statements of _search_catalog
row_matches(filename, query, search_type) ==
  IF search_type = "exact" THEN filename = query
  ELSE IF search_type = "wildcard" THEN like(query, filename)
  ELSE like("%" \o query \o "%", filename)

RECURSIVE select_rows(_, _, _, _)
\* the rows the statement returns, LIMIT max_results
select_rows(rows, query, search_type, limit) ==
  IF Len(rows) = 0 \/ limit = 0 THEN <<>>
  ELSE IF row_matches(Head(rows), query, search_type)
       THEN <<Head(rows)>> \o select_rows(Tail(rows), query, search_type, limit - 1)
       ELSE select_rows(Tail(rows), query, search_type, limit)

FileResult(filename, catalog_path) ==
  [filename |-> filename, catalog_name |-> stem(basename(catalog_path)),
   catalog_path |-> catalog_path]

\* _search_catalog: raises when the statement fails
search_catalog_raises(disk, catalog_path) ==
  catalog_path \notin DOMAIN disk \/ disk[catalog_path].kind # "catalog"

search_catalog(disk, catalog_path, query, search_type, max_results) ==
  LET rows == select_rows(disk[catalog_path].rows, query, search_type, max_results)
  IN  [i \in 1..Len(rows) |-> FileResult(rows[i], catalog_path)]

\* a variant of the truncation that keeps everything
truncate_none(all_results, max_results) == all_results

\* all_results[:max_results]
truncate(all_results, max_results) == SubSeq(all_results, 1, max_results)

RECURSIVE search_from(_, _, _, _, _, _, _)
\* the loop of search from the k-th catalog on: the results and the catalogs
\* connected to
search_from(disk, cats, k, query, search_type, max_results, acc) ==
  IF k > Len(cats) THEN acc
  ELSE LET opened == Append(acc.opened, cats[k])
       IN  IF search_catalog_raises(disk, cats[k])
           THEN search_from(disk, cats, k + 1, query, search_type, max_results,
                            [acc EXCEPT !.opened = opened])
           ELSE LET all_results == acc.results \o
                      search_catalog(disk, cats[k], query, search_type, max_results)
                IN  IF Len(all_results) >= max_results
                    THEN [results |-> truncate(all_results, max_results),
                          opened  |-> opened]
                    ELSE search_from(disk, cats, k + 1, query, search_type, max_results,
                                     [results |-> all_results, opened |-> opened])

NoCall == [op |-> "none", path |-> "", query |-> "", search_type |-> "",
           max_results |-> 0]

call_of(op, path) == [NoCall EXCEPT !.op = op, !.path = path]

\* paths a caller may hand over, search arguments
SamplePaths ==
  { "/cat/2023.lrcat", "/cat/2024.LRCAT", "/cat/old.lrcat", "/cat/empty.lrcat",
    "/cat/notes.txt", "/fake/path/catalog.lrcat" }

SampleQueries == { "", "  ", "img", "IMG_1.jpg" }

MaxResults == 2

\* a variant that appends whatever the list holds
append_always(lst, x) == Append(lst, x)

\* `if catalog_path not in self.catalogs: self.catalogs.append(catalog_path)`
append_new(lst, x) == IF InList(x, lst) THEN lst ELSE Append(lst, x)

\* MultiCatalogSearch.add_catalog
add_catalog ==
  \E catalog_path \in SamplePaths :
    /\ k_call' = call_of("add_catalog", catalog_path)
    /\ k_opened' = IF    path_exists(k_disk, catalog_path)
                      /\ lower(suffix(basename(catalog_path))) = ".lrcat"
                   THEN <<catalog_path>> ELSE <<>>
    /\ IF ~path_exists(k_disk, catalog_path)
       THEN /\ last_error' = "Catalog not found: " \o catalog_path
            /\ k_returned' = FALSE
            /\ UNCHANGED catalogs
       ELSE IF lower(suffix(basename(catalog_path))) # ".lrcat"
       THEN /\ last_error' = "Not a Lightroom catalog: " \o catalog_path
            /\ k_returned' = FALSE
            /\ UNCHANGED catalogs
       ELSE IF k_disk[catalog_path].kind = "other"
       THEN /\ last_error' = "Cannot open catalog " \o catalog_path
                               \o ": file is not a database"
            /\ k_returned' = FALSE
            /\ UNCHANGED catalogs
       ELSE IF k_disk[catalog_path].kind = "notable"
       THEN /\ last_error' =
                 "Invalid Lightroom catalog (missing AgLibraryFile table): "
                   \o catalog_path
            /\ k_returned' = FALSE
            /\ UNCHANGED catalogs
       ELSE /\ catalogs' = append_new(catalogs, catalog_path)
            /\ k_returned' = TRUE
            /\ UNCHANGED last_error
    /\ UNCHANGED <<k_disk, k_results, cvars, evars, svars, jvars>>

\* list.remove: the first occurrence
remove_first(lst, x) ==
  LET i == CHOOSE i \in 1..Len(lst) : lst[i] = x /\ \A j \in 1..(i - 1) : lst[j] # x
  IN  SubSeq(lst, 1, i - 1) \o SubSeq(lst, i + 1, Len(lst))

\* MultiCatalogSearch.remove_catalog
remove_catalog ==
  \E catalog_path \in SamplePaths :
    /\ k_call' = call_of("remove_catalog", catalog_path)
    /\ IF InList(catalog_path, catalogs)
       THEN catalogs' = remove_first(catalogs, catalog_path) /\ k_returned' = TRUE
       ELSE UNCHANGED catalogs /\ k_returned' = FALSE
    /\ k_opened' = <<>>
    /\ UNCHANGED <<k_disk, last_error, k_results, cvars, evars, svars, jvars>>

\* MultiCatalogSearch.clear_catalogs
clear_catalogs ==
  /\ k_call' = call_of("clear_catalogs", "")
  /\ catalogs' = <<>>
  /\ k_opened' = <<>>
  /\ UNCHANGED <<k_disk, last_error, k_returned, k_results, cvars, evars, svars, jvars>>

\* MultiCatalogSearch.search
search ==
  \E query \in SampleQueries, search_type \in {"exact", "contains", "wildcard"},
     max_results \in 0..MaxResults :
    /\ k_call' = [NoCall EXCEPT !.op = "search", !.query = query,
                                !.search_type = search_type,
                                !.max_results = max_results]
    /\ IF strip(query) = ""
       THEN /\ last_error' = "Empty search query"
            /\ k_results' = <<>>
            /\ k_opened' = <<>>
       ELSE IF Len(catalogs) = 0
       THEN /\ last_error' = "No catalogs added"
            /\ k_results' = <<>>
            /\ k_opened' = <<>>
       ELSE LET r == search_from(k_disk, catalogs, 1, query, search_type, max_results,
                                 [results |-> <<>>, opened |-> <<>>])
            IN  /\ k_results' = r.results
                /\ k_opened' = r.opened
                /\ UNCHANGED last_error
    /\ UNCHANGED <<k_disk, catalogs, k_returned, cvars, evars, svars, jvars>>

(***************************************************************************)
(* Specifications                                                          *)
(***************************************************************************)
NoPlan == [target_root |-> "", action |-> "copy", folders |-> <<>>, moves |-> <<>>]

ClassifierIdle ==
  /\ ci = 0
  /\ unclassified = <<>>
  /\ batch_start = 0
  /\ c_stop_requested = FALSE
  /\ classification_complete = <<>>
  /\ response = NoResponse
  /\ batch_before = <<>>
  /\ requests = <<>>
  /\ writes = <<>>

NoDialog == [shown |-> FALSE, succeeded |-> 0, failed |-> 0, listed |-> <<>>, more |-> 0]

ExecutorIdle ==
  /\ fi = 0
  /\ mi = 0
  /\ succeeded = 0
  /\ failed = 0
  /\ errors = <<>>
  /\ e_stop_requested = FALSE
  /\ execution_complete = <<>>
  /\ exec_dialog = NoDialog
  /\ attempts = <<>>

NoJson ==
  /\ json_text = ""
  /\ json_parsed = [ok |-> FALSE, value |-> ""]

NoCatalog ==
  /\ k_disk = <<>>
  /\ catalogs = <<>>
  /\ last_error = None
  /\ k_call = NoCall
  /\ k_returned = FALSE
  /\ k_results = <<>>
  /\ k_opened = <<>>

NotSeen == [seen |-> FALSE, files |-> <<>>]

ScannerIdle ==
  /\ stack = <<>>
  /\ scanned = <<>>
  /\ s_stop_requested = FALSE
  /\ scan_complete = <<>>
  /\ scan_error = <<>>
  /\ seen_stop = NotSeen

NoScanner ==
  /\ tree = <<>>
  /\ s_options = [max_files |-> 0, include_subfolders |-> FALSE,
                  detect_duplicates |-> FALSE, read_keywords |-> FALSE]
  /\ spc = "none"
  /\ ScannerIdle

NoExecutor ==
  /\ plan = NoPlan
  /\ fsys = <<>>
  /\ fsys0 = <<>>
  /\ epc = "none"
  /\ ExecutorIdle

DefaultOptions == [trust_level |-> "trust", use_llm |-> FALSE, photo_mode |-> FALSE]

\* --- a classifier run: a FileClassifier constructed on the list a scan delivered
Init ==
  /\ files \in UNION {ScanLists(n) : n \in 1..MaxFiles}
  /\ options \in OptionSets
  /\ cpc = "start"
  /\ ClassifierIdle
  /\ NoJson
  /\ NoCatalog
  /\ NoScanner
  /\ NoExecutor

Next ==
  \/ classifier_stop
  \/ run_begin
  \/ run_classify
  \/ run_loop_exit
  \/ run_llm_guard
  \/ run_llm_batch
  \/ run_llm_exit
  \/ run_complete

Spec == Init /\ [][Next]_vars

\* --- the duplicate pre-pass on lists of records with arbitrary fingerprints
Fingerprints == {"", "h1", "h2", "h3"}

InitDup ==
  /\ files \in UNION { { [i \in 1..n |-> FileInfo(scan_path(i, "f.bin"), 1, 2023, <<>>, h[i])] :
                           h \in [1..n -> Fingerprints] } : n \in 1..MaxDupFiles }
  /\ options = DefaultOptions
  /\ cpc = "start"
  /\ ClassifierIdle
  /\ NoJson
  /\ NoCatalog
  /\ NoScanner
  /\ NoExecutor

NextDup == run_begin

SpecDup == InitDup /\ [][NextDup]_vars

\* --- the keyword step on records with arbitrary keyword lists
SampleKeywords ==
  {"bird", "Birds", "OWL", "wedding", "Dog", "tennis", "model", "sunset", "catalog", "misc"}

keywords_step ==
  /\ cpc = "keywords"
  /\ files' = [files EXCEPT ![1] = classify_from_keywords(files[1])]
  /\ cpc' = "keywords_done"
  /\ UNCHANGED <<options, ci, unclassified, batch_start, c_stop_requested,
                 classification_complete, response, batch_before, requests, writes, evars, svars, jvars, kvars>>

InitKeywords ==
  /\ files \in UNION { { <<FileInfo("/s/d1/p.jpg", 1, y, kw, "")>> :
                           kw \in [1..n -> SampleKeywords], y \in {2023, 2024} } :
                       n \in 1..MaxKeywords }
  /\ options = DefaultOptions
  /\ cpc = "keywords"
  /\ ClassifierIdle
  /\ NoJson
  /\ NoCatalog
  /\ NoScanner
  /\ NoExecutor

NextKeywords == keywords_step

SpecKeywords == InitKeywords /\ [][NextKeywords]_vars

\* --- the rule-table step on records with arbitrary names
SampleStems == {"a", "Screenshot 1", "x.tar"}

SampleExtensions ==
  UNION {{"." \o a : a \in build_rules[r].pattern.alts} :
           r \in {r \in 1..Len(build_rules) : build_rules[r].pattern.ext}}
  \cup {".PDF", ".Docx", ".jpg", ".xyz", ""}

rules_step ==
  /\ cpc = "rules"
  /\ files' = [files EXCEPT ![1] = classify_by_rules(build_rules, files[1])]
  /\ cpc' = "rules_done"
  /\ UNCHANGED <<options, ci, unclassified, batch_start, c_stop_requested,
                 classification_complete, response, batch_before, requests, writes, evars, svars, jvars, kvars>>

InitRules ==
  /\ files \in { <<FileInfo("/s/d1/" \o st \o e, 1, y, <<>>, "")>> :
                   st \in SampleStems, e \in SampleExtensions, y \in {2023, 2024} }
  /\ options = DefaultOptions
  /\ cpc = "rules"
  /\ ClassifierIdle
  /\ NoJson
  /\ NoCatalog
  /\ NoScanner
  /\ NoExecutor

NextRules == rules_step

SpecRules == InitRules /\ [][NextRules]_vars

\* --- an executor run on a plan _create_plan built
\* classified records: where the file is, and the folder it was given
Classified(path, destination, data) ==
  [FileInfo(path, 1, 2023, <<>>, "") EXCEPT !.destination = destination]

SampleMoves ==
  { [name |-> "report.txt",   destination |-> "Docs"],
    [name |-> "report_1.txt", destination |-> "Docs"],
    [name |-> "a.jpg",        destination |-> "Pics/2023"],
    [name |-> "x.bin",        destination |-> ""] }

\* what the target holds before the run
SampleTargets_empty == <<>>
SampleTargets_report ==
  ("/t" :> IsDir) @@ ("/t/Docs" :> IsDir) @@ ("/t/Docs/report.txt" :> "old report")

SampleTargets ==
  { SampleTargets_empty,
    SampleTargets_report,
    ("/t" :> IsDir) @@ ("/t/Docs" :> IsDir) @@ ("/t/Docs/report.txt" :> "old report")
       @@ ("/t/Docs/report_1.txt" :> "old report 1"),
    ("/t" :> IsDir) @@ ("/t/Pics" :> "a file named Pics") @@ ("/t/x.bin" :> "old x") }

\* the source tree: every planned file is there
source_tree(fs) ==
  [p \in {fs[i].path : i \in 1..Len(fs)} |-> "bytes of " \o p]

InitExec ==
  /\ \E n \in 1..MaxMoves : \E s \in [1..n -> SampleMoves] :
       LET fs == [i \in 1..n |-> Classified(scan_path(i, s[i].name), s[i].destination, "")]
       IN  \E folders \in folder_lists(fs), action \in {"copy", "move"},
              target \in SampleTargets :
             /\ plan = create_plan(fs, "/s", "/t", action, folders, "trust")
             /\ fsys = source_tree(fs) @@ target
  /\ fsys0 = fsys
  /\ epc = "start"
  /\ ExecutorIdle
  /\ files = <<>>
  /\ options = DefaultOptions
  /\ cpc = "none"
  /\ ClassifierIdle
  /\ NoJson
  /\ NoCatalog
  /\ NoScanner

NextExec ==
  \/ executor_stop
  \/ exec_begin
  \/ exec_mkdir
  \/ exec_folders_done
  \/ exec_move
  \/ exec_loop_exit
  \/ exec_complete

SpecExec == InitExec /\ [][NextExec]_vars

\* --- an executor run on a plan as a caller may construct it: OrganizationPlan
\* takes any list of dicts as moves, so an entry may lack keys
without_keys(move, dropped) == [k \in DOMAIN move \ dropped |-> move[k]]

InitExecPlan ==
  /\ \E n \in 1..MaxMoves : \E s \in [1..n -> SampleMoves] :
       LET fs == [i \in 1..n |-> Classified(scan_path(i, s[i].name), s[i].destination, "")]
       IN  \E folders \in folder_lists(fs), action \in {"copy", "move"},
              target \in {SampleTargets_empty, SampleTargets_report},
              damaged \in 1..n, dropped \in SUBSET required_keys :
             /\ Cardinality(dropped) <= 1
             /\ plan = [create_plan(fs, "/s", "/t", action, folders, "trust") EXCEPT
                         !.moves[damaged] = without_keys(@, dropped)]
             /\ fsys = source_tree(fs) @@ target
  /\ fsys0 = fsys
  /\ epc = "start"
  /\ ExecutorIdle
  /\ files = <<>>
  /\ options = DefaultOptions
  /\ cpc = "none"
  /\ ClassifierIdle
  /\ NoJson
  /\ NoCatalog
  /\ NoScanner

SpecExecPlan == InitExecPlan /\ [][NextExec]_vars

\* --- an executor run in which many moves fail: the sources of all but the
\* first `present` planned files are gone when the run starts
MaxFailures == 11

InitExecErrors ==
  /\ \E n \in (error_display_cap - 1)..MaxFailures, present \in 0..1,
        destination \in {"", "Docs"}, action \in {"copy", "move"} :
       LET fs == [i \in 1..n |-> Classified(scan_path(i, "x.bin"), destination, "")]
       IN  \E folders \in folder_lists(fs) :
             /\ plan = create_plan(fs, "/s", "/t", action, folders, "trust")
             /\ fsys = source_tree(SubSeq(fs, 1, present))
  /\ fsys0 = fsys
  /\ epc = "start"
  /\ ExecutorIdle
  /\ files = <<>>
  /\ options = DefaultOptions
  /\ cpc = "none"
  /\ ClassifierIdle
  /\ NoJson
  /\ NoCatalog
  /\ NoScanner

NextExecErrors ==
  \/ NextExec
  \/ on_exec_complete

SpecExecErrors == InitExecErrors /\ [][NextExecErrors]_vars

\* --- _create_plan on the list a classifier run handed over
\* the local pipeline on a scanned list: the duplicate pre-pass, then the
\* decision chain for every record
local_pipeline(fs, opts) ==
  [i \in 1..Len(fs) |-> classify_record(detect_duplicates(fs)[i], opts)]

\* the lists classification_complete may carry: every record through the
\* pipeline, or the records from `first_left` on untouched because the loop
\* ended on the stop flag
ClassifiedLists ==
  UNION { { [i \in 1..Len(fs) |->
              IF i < first_left THEN local_pipeline(fs, opts)[i]
              ELSE detect_duplicates(fs)[i]] :
            fs \in ScanLists(n), first_left \in {n, n + 1},
            opts \in {DefaultOptions, [DefaultOptions EXCEPT !.trust_level = "verify"]} } :
          n \in 1..MaxFiles }

\* a variant that gives the records without a destination one while it
\* builds the plan
create_plan_step_fills ==
  /\ epc = "create_plan"
  /\ files' = [i \in 1..Len(files) |->
                IF files[i].destination = ""
                THEN [files[i] EXCEPT !.destination = "Unsorted"] ELSE files[i]]
  /\ \E action \in {"copy", "move"}, target_input \in {"", "/t"},
        folders \in folder_lists(files') :
       plan' = create_plan(files', "/s", target_input, action, folders,
                           options.trust_level)
  /\ epc' = "planned"
  /\ UNCHANGED <<fsys, fi, mi, succeeded, failed, errors, e_stop_requested,
                 execution_complete, fsys0, exec_dialog, attempts,
                 options, cpc, ci, unclassified, batch_start, c_stop_requested,
                 classification_complete, response, batch_before, requests, writes,
                 svars, jvars, kvars>>

\* FileOrganizerPro._create_plan: what the two text fields hold, and the
\* action asked for
create_plan_step ==
  /\ epc = "create_plan"
  /\ \E action \in {"copy", "move"}, target_input \in {"", "/t"},
        folders \in folder_lists(files) :
       plan' = create_plan(files, "/s", target_input, action, folders,
                           options.trust_level)
  /\ epc' = "planned"
  /\ UNCHANGED <<fsys, fi, mi, succeeded, failed, errors, e_stop_requested,
                 execution_complete, fsys0, exec_dialog, attempts, cvars, svars, jvars, kvars>>

InitPlan ==
  /\ files \in ClassifiedLists
  /\ options \in {DefaultOptions, [DefaultOptions EXCEPT !.trust_level = "verify"]}
  /\ cpc = "done"
  /\ ClassifierIdle
  /\ NoJson
  /\ NoCatalog
  /\ NoScanner
  /\ plan = NoPlan
  /\ fsys = <<>>
  /\ fsys0 = <<>>
  /\ epc = "create_plan"
  /\ ExecutorIdle

NextPlan == create_plan_step

SpecPlan == InitPlan /\ [][NextPlan]_vars

\* --- to_json on a plan _create_plan built, and json.loads of the text
MaxJsonMoves == 2

\* files with and without a fingerprint, a duplicate pair, and a file whose
\* name holds a quote and a backslash
SampleJsonFiles ==
  { [name |-> "a.pdf",       keywords |-> <<>>, modified |-> 2023, file_hash |-> "h1", size |-> 10],
    [name |-> "c.xyz",       keywords |-> <<>>, modified |-> 2024, file_hash |-> "h1", size |-> 1234],
    [name |-> "no\"te\\1.txt", keywords |-> <<>>, modified |-> 2024, file_hash |-> "", size |-> 0] }

JsonLists ==
  UNION { { local_pipeline(
              [i \in 1..n |-> FileInfo(scan_path(i, s[i].name), s[i].size, s[i].modified,
                                       s[i].keywords, s[i].file_hash)],
              DefaultOptions) :
            s \in [1..n -> SampleJsonFiles] } :
          n \in 0..MaxJsonMoves }

\* plan.to_json()
to_json_step ==
  /\ epc = "to_json"
  /\ json_text' = to_json(plan)
  /\ epc' = "json.loads"
  /\ UNCHANGED <<plan, fsys, fi, mi, succeeded, failed, errors, e_stop_requested,
                 execution_complete, fsys0, exec_dialog, attempts, json_parsed,
                 cvars, svars, kvars>>

\* json.loads(text)
json_loads_step ==
  /\ epc = "json.loads"
  /\ json_parsed' = json_loads(json_text)
  /\ epc' = "parsed"
  /\ UNCHANGED <<plan, fsys, fi, mi, succeeded, failed, errors, e_stop_requested,
                 execution_complete, fsys0, exec_dialog, attempts, json_text,
                 cvars, svars, kvars>>

InitJson ==
  /\ \E fs \in JsonLists, action \in {"copy", "move"}, target_input \in {"", "/t"} :
       \E folders \in folder_lists(fs) :
         plan = create_plan(fs, "/s", target_input, action, folders, "trust")
  /\ files = <<>>
  /\ options = DefaultOptions
  /\ cpc = "none"
  /\ ClassifierIdle
  /\ NoJson
  /\ NoCatalog
  /\ NoScanner
  /\ fsys = <<>>
  /\ fsys0 = <<>>
  /\ epc = "to_json"
  /\ ExecutorIdle

NextJson ==
  \/ to_json_step
  \/ json_loads_step

SpecJson == InitJson /\ [][NextJson]_vars

\* --- a scan of a source tree
MaxScanFiles == 4

File(check) == Node("file", <<>>, "ok", check, <<"tag">>)
Dir(items, listing) == Node("dir", items, listing, "ok", <<>>)

\* the orders iterdir may list the source folder in
SampleListings ==
  { <<"a.txt", "sub", "b.txt", ".cfg", "c.txt">>,
    <<"a.txt", "b.txt", ".cfg", "c.txt", "sub">> }

\* three files, a hidden file and a subfolder with two files and a subfolder
\* of its own; sub_listing is what listing the subfolder does
SampleTree(listing, sub_listing) ==
  ("/src" :> Dir(listing, "ok"))
  @@ ("/src/a.txt" :> File("ok")) @@ ("/src/b.txt" :> File("ok"))
  @@ ("/src/c.txt" :> File("ok")) @@ ("/src/.cfg" :> File("ok"))
  @@ ("/src/sub" :> Dir(<<"d.txt", "deep", "e.txt">>, sub_listing))
  @@ ("/src/sub/d.txt" :> File("ok")) @@ ("/src/sub/e.txt" :> File("ok"))
  @@ ("/src/sub/deep" :> Dir(<<"f.txt">>, "ok"))
  @@ ("/src/sub/deep/f.txt" :> File("ok"))

\* what handling one entry may run into
SampleTroubles ==
  { [at |-> "/src/b.txt", check |-> c] :
      c \in {"ok", "type_check_raises", "stat_raises", "metadata_raises", "hash_raises"} }
  \cup { [at |-> "/src/sub/d.txt", check |-> c] : c \in {"type_check_raises", "stat_raises"} }

SampleScanOptions ==
  { [max_files |-> m, include_subfolders |-> o.include_subfolders,
     detect_duplicates |-> o.detect_duplicates, read_keywords |-> TRUE] :
      m \in 1..MaxScanFiles,
      o \in { [include_subfolders |-> TRUE,  detect_duplicates |-> TRUE],
              [include_subfolders |-> TRUE,  detect_duplicates |-> FALSE],
              [include_subfolders |-> FALSE, detect_duplicates |-> TRUE] } }

InitScan ==
  /\ \E listing \in SampleListings,
        sub_listing \in {"ok", "PermissionError", "OSError"},
        trouble \in SampleTroubles :
       tree = [SampleTree(listing, sub_listing) EXCEPT
                 ![trouble.at].check = trouble.check]
  /\ s_options \in SampleScanOptions
  /\ spc = "start"
  /\ ScannerIdle
  /\ files = <<>>
  /\ options = DefaultOptions
  /\ cpc = "none"
  /\ ClassifierIdle
  /\ NoJson
  /\ NoCatalog
  /\ NoExecutor

NextScan ==
  \/ scanner_stop
  \/ scan_begin
  \/ scan_enter
  \/ scan_check
  \/ scan_item
  \/ scan_loop_end
  \/ scan_emit
  \/ scan_except

SpecScan == InitScan /\ [][NextScan]_vars

\* the steps of run itself: the thread, once started, keeps being scheduled
scan_run_step ==
  \/ scan_begin
  \/ scan_enter
  \/ scan_check
  \/ scan_item
  \/ scan_loop_end
  \/ scan_emit
  \/ scan_except

\* a scan of the tree as first listed, with subfolders
InitScanFair ==
  /\ InitScan
  /\ tree["/src"].items[2] = "sub"
  /\ tree["/src/b.txt"].check \in {"ok", "type_check_raises"}
  /\ s_options.include_subfolders /\ s_options.detect_duplicates

SpecScanFair == InitScanFair /\ [][NextScan]_vars /\ WF_vars(scan_run_step)

\* --- a MultiCatalogSearch and the calls made on it
Catalog(rows) == [kind |-> "catalog", rows |-> rows]
NotCatalog(kind) == [kind |-> kind, rows |-> <<>>]

SampleDisk ==
  ("/cat/2023.lrcat" :> Catalog(<<"img_1.jpg", "sunset.jpg", "IMG_1.jpg">>))
  @@ ("/cat/2024.LRCAT" :> Catalog(<<"img_3.jpg", "img_1.jpg">>))
  @@ ("/cat/old.lrcat" :> NotCatalog("partial"))
  @@ ("/cat/empty.lrcat" :> NotCatalog("notable"))
  @@ ("/cat/notes.txt" :> NotCatalog("other"))

\* MultiCatalogSearch.__init__
InitCatalog ==
  /\ k_disk = SampleDisk
  /\ catalogs = <<>>
  /\ last_error = None
  /\ k_call = NoCall
  /\ k_returned = FALSE
  /\ k_results = <<>>
  /\ k_opened = <<>>
  /\ files = <<>>
  /\ options = DefaultOptions
  /\ cpc = "none"
  /\ ClassifierIdle
  /\ NoJson
  /\ NoScanner
  /\ NoExecutor

NextCatalog ==
  \/ add_catalog
  \/ remove_catalog
  \/ clear_catalogs
  \/ search

SpecCatalog == InitCatalog /\ [][NextCatalog]_vars

\* --- a classifier run with remote classification on a list long enough
\* for several batches
MaxBatchFiles == 41

\* n records without keywords and fingerprints: "c.xyz" meets no rule and
\* reaches the fallback step, the record at position rule_at (if any) is a
\* PDF the rule table places
BatchList(n, rule_at) ==
  [i \in 1..n |-> FileInfo(scan_path(i, IF i = rule_at THEN "a.pdf" ELSE "c.xyz"),
                           10, 2024, <<>>, "")]

\* replies to a batch: the request or the parsing fails, the reply is not a
\* list, or it is a list with one entry for the name the fallback records
\* share, well-formed or with a confidence that is not a string
SampleReplies(fs, batch) ==
  { [kind |-> "error"], [kind |-> "notlist"],
    [kind |-> "list", items |-> <<Entry("c.xyz", AllKeys, TRUE)>>],
    [kind |-> "list", items |-> <<Entry("c.xyz", AllKeys, FALSE)>>] }

run_llm_batch_sampled == llm_batch(SampleReplies)

InitBatch ==
  /\ \E n \in {1, batch_size, batch_size + 1, MaxBatchFiles - 1, MaxBatchFiles},
        rule_at \in {0, 1, batch_size} :
       files = BatchList(n, rule_at)
  /\ options = [DefaultOptions EXCEPT !.use_llm = TRUE]
  /\ cpc = "start"
  /\ ClassifierIdle
  /\ NoJson
  /\ NoCatalog
  /\ NoScanner
  /\ NoExecutor

NextBatch ==
  \/ classifier_stop
  \/ run_begin
  \/ run_classify
  \/ run_loop_exit
  \/ run_llm_guard
  \/ run_llm_batch_sampled
  \/ run_llm_exit
  \/ run_complete

SpecBatch == InitBatch /\ [][NextBatch]_vars

\* --- the whole pipeline on one list: classification, plan building, execution
MaxPipelineFiles == 2

\* FileOrganizerPro._on_classification_complete: the records are taken
\* over and the results page is shown
on_classification_complete ==
  /\ cpc = "done"
  /\ epc = "none"
  /\ epc' = "create_plan"
  /\ UNCHANGED <<plan, fsys, fi, mi, succeeded, failed, errors, e_stop_requested,
                 execution_complete, fsys0, exec_dialog, attempts, cvars, svars, jvars, kvars>>

\* FileOrganizerPro._execute_plan: the executor is constructed on the plan
\* and started
execute_plan ==
  /\ epc = "planned"
  /\ epc' = "start"
  /\ UNCHANGED <<plan, fsys, fi, mi, succeeded, failed, errors, e_stop_requested,
                 execution_complete, fsys0, exec_dialog, attempts, cvars, svars, jvars, kvars>>

InitPipeline ==
  /\ \E n \in 1..MaxPipelineFiles, rule_at \in 0..1 : files = BatchList(n, rule_at)
  /\ options = [DefaultOptions EXCEPT !.use_llm = TRUE]
  /\ cpc = "start"
  /\ ClassifierIdle
  /\ NoJson
  /\ NoCatalog
  /\ NoScanner
  /\ plan = NoPlan
  /\ fsys = source_tree(files)
  /\ fsys0 = fsys
  /\ epc = "none"
  /\ ExecutorIdle

NextPipeline ==
  \/ NextBatch
  \/ on_classification_complete
  \/ create_plan_step
  \/ execute_plan
  \/ NextExec

SpecPipeline == InitPipeline /\ [][NextPipeline]_vars

\* --- a classifier run on records with arbitrary fingerprints, with and
\* without remote classification; the service is free in the destination it
\* names, the quarantine folder included
FingerprintReplies(fs, batch) ==
  { [kind |-> "error"],
    [kind |-> "list", items |-> <<Entry(fs[batch[1]].name, AllKeys, TRUE)>>],
    [kind |-> "list",
     items |-> <<[Entry(fs[batch[1]].name, AllKeys, TRUE) EXCEPT
                    !.destination = "_Duplicates"]>>] }

run_llm_batch_fingerprints == llm_batch(FingerprintReplies)

InitFingerprints ==
  /\ files \in UNION { { [i \in 1..n |->
                            FileInfo(scan_path(i, "f" \o str(i) \o ".bin"), 1, 2023, <<>>, h[i])] :
                           h \in [1..n -> Fingerprints] } : n \in 1..MaxDupFiles }
  /\ options \in {[DefaultOptions EXCEPT !.use_llm = u] : u \in BOOLEAN}
  /\ cpc = "start"
  /\ ClassifierIdle
  /\ NoJson
  /\ NoCatalog
  /\ NoScanner
  /\ NoExecutor

NextFingerprints ==
  \/ classifier_stop
  \/ run_begin
  \/ run_classify
  \/ run_loop_exit
  \/ run_llm_guard
  \/ run_llm_batch_fingerprints
  \/ run_llm_exit
  \/ run_complete

SpecFingerprints == InitFingerprints /\ [][NextFingerprints]_vars

(***************************************************************************)
(* Properties of the duplicate pre-pass and of the local pipeline          *)
(***************************************************************************)
\* the first record, in scan order, that carries the fingerprint h
first_with_hash(fs, h) ==
  CHOOSE j \in 1..Len(fs) : fs[j].file_hash = h /\ \A q \in 1..(j - 1) : fs[q].file_hash # h

\* C1: after the duplicate pre-pass, among the records that share a
\* fingerprint the first in scan order is not a duplicate, and every later one
\* is marked duplicate with duplicate_of = the path of that first record.
\* (A record with file_hash = "" has no fingerprint.)
C1_FirstSeenIsCanonical ==
  cpc = "loop" =>
    \A i \in 1..Len(files) :
      files[i].file_hash # "" =>
        LET first == first_with_hash(files, files[i].file_hash)
        IN  /\ ~files[first].is_duplicate
            /\ files[first].duplicate_of = None
            /\ i # first => /\ files[i].is_duplicate
                            /\ files[i].duplicate_of = files[first].path

\* three records of one fingerprint: the third refers to the first
C1_Witness ==
  /\ cpc = "loop"
  /\ Len(files) = 3
  /\ files[1].file_hash = "h1" /\ files[2].file_hash = "h1" /\ files[3].file_hash = "h1"
  /\ files[2].is_duplicate
  /\ files[3].is_duplicate
  /\ files[3].duplicate_of = files[1].path

\* C2: in every list handed over through classification_complete, every
\* record with is_duplicate = true has destination "_Duplicates", confidence
\* High and source Hash.
C2_DuplicatesQuarantined ==
  \A k \in 1..Len(classification_complete) :
    \A i \in 1..Len(classification_complete[k]) :
      LET f == classification_complete[k][i]
      IN  f.is_duplicate =>
            f.destination = "_Duplicates" /\ f.confidence = "high" /\ f.source = "hash"

\* the conditions of the decision order, from the record's inputs
KeywordsTrusted(f) == Len(f.keywords) > 0 /\ options.trust_level = "trust"
SomeRuleMatches(f) == matching_rules(build_rules, f) # {}
PhotoStep(f) == f.is_photo /\ options.photo_mode

\* the outcome of each step is recognisable by what it writes
OutcomeDuplicate(f) == f.destination = "_Duplicates" /\ f.source = "hash"
OutcomeKeywords(f) == StartsWith(f.destination, "Photos/") /\ f.source = "keywords"
OutcomeRule(f) == StartsWith(f.reasoning, "Matched rule '") /\ f.source = "rule"
OutcomePhoto(f) ==
  \/ f.destination = "Photos/Screenshots/" \o year_of(f) /\ f.source = "rule"
  \/ f.destination = "Photos/Uncategorized/" \o year_of(f) /\ f.source = "vision"
OutcomeFallback(f) ==
  /\ f.destination = "Unsorted/" \o year_of(f)
  /\ f.confidence = "low" /\ f.source = "rule"
  /\ f.reasoning = "No matching rule found"

\* C3: a record the local loop has classified carries the outcome of the
\* first step, in the order duplicate, trusted keywords, rule table, photo,
\* fallback, whose condition it meets, and of no other step.
C3_DecisionOrder ==
  cpc \in {"loop", "after_loop"} =>
    \A i \in 1..(ci - 1) :
      LET f == files[i]
      IN  /\ f.is_duplicate => OutcomeDuplicate(f)
          /\ ~f.is_duplicate /\ KeywordsTrusted(f) => OutcomeKeywords(f)
          /\ ~f.is_duplicate /\ ~KeywordsTrusted(f) /\ SomeRuleMatches(f) => OutcomeRule(f)
          /\ ~f.is_duplicate /\ ~KeywordsTrusted(f) /\ ~SomeRuleMatches(f) /\ PhotoStep(f)
               => OutcomePhoto(f)
          /\ ~f.is_duplicate /\ ~KeywordsTrusted(f) /\ ~SomeRuleMatches(f) /\ ~PhotoStep(f)
               => OutcomeFallback(f)
          /\ Cardinality({k \in 1..5 :
                 \/ k = 1 /\ OutcomeDuplicate(f)
                 \/ k = 2 /\ OutcomeKeywords(f)
                 \/ k = 3 /\ OutcomeRule(f)
                 \/ k = 4 /\ OutcomePhoto(f)
                 \/ k = 5 /\ OutcomeFallback(f)}) = 1

\* a keyworded .pdf under Trust has gone to a keyword bucket, not to
\* Documents/PDF, and a duplicate without keywords to the quarantine folder
C3_Witness ==
  /\ cpc = "loop"
  /\ ci = 3
  /\ options.trust_level = "trust"
  /\ files[1].extension = ".pdf" /\ Len(files[1].keywords) > 0
  /\ OutcomeKeywords(files[1])
  /\ files[2].is_duplicate /\ Len(files[2].keywords) = 0 /\ OutcomeDuplicate(files[2])

(***************************************************************************)
(* Properties of the keyword step                                          *)
(***************************************************************************)
\* the categories of which some keyword occurs, case-insensitively, inside
\* one of the record's keywords
substring_hits(f) ==
  {c \in 1..Len(photo_categories) :
     \E i \in 1..Len(photo_categories[c].keywords), j \in 1..Len(f.keywords) :
       Contains(photo_categories[c].keywords[i], lower(f.keywords[j]))}

\* C4: the keyword step gives the first category, in declared order, of which
\* a keyword occurs as a case-insensitive substring of one of the record's
\* keywords, with confidence High; the general bucket with confidence Medium
\* when no category matches; source Keywords in both cases.
C4_SubstringMatch ==
  cpc = "keywords_done" =>
    LET f    == files[1]
        hits == substring_hits(f)
    IN  /\ f.source = "keywords"
        /\ hits # {} =>
             /\ f.destination = "Photos/" \o
                  photo_categories[CHOOSE c \in hits : \A d \in hits : c <= d].category
                  \o "/" \o year_of(f)
             /\ f.confidence = "high"
        /\ hits = {} =>
             /\ f.destination = "Photos/General/" \o year_of(f)
             /\ f.confidence = "medium"

(***************************************************************************)
(* Properties of the rule-table step                                       *)
(***************************************************************************)
\* rule r matches the record and no rule before it does
FirstMatch(r, f) ==
  /\ re_search(build_rules[r].pattern, text_to_check(build_rules[r], f))
  /\ \A q \in 1..(r - 1) : ~re_search(build_rules[q].pattern, text_to_check(build_rules[q], f))

\* C5: the first rule, in declared order, that matches the extension (or the
\* lower-cased file name) gives the destination, its template with every
\* {year} replaced by the year of the modified time, confidence High, source
\* Rule; a .pdf of 2023 goes to Documents/PDF/2023.
C5_FirstRuleWins ==
  cpc = "rules_done" =>
    LET f == files[1]
    IN  /\ \A r \in 1..Len(build_rules) :
             FirstMatch(r, f) =>
               /\ f.destination = replace(build_rules[r].dest, "{year}", str(f.modified))
               /\ ~Contains("{year}", f.destination)
               /\ f.confidence = "high"
               /\ f.source = "rule"
               /\ f.reasoning = "Matched rule '" \o build_rules[r].name \o "'"
        /\ f.extension = ".pdf" /\ f.modified = 2023 => f.destination = "Documents/PDF/2023"
        /\ (\A r \in 1..Len(build_rules) : ~FirstMatch(r, f)) => f.destination = ""

\* a name two rules match: Screenshots is declared before Applications
C5_Witness ==
  /\ cpc = "rules_done"
  /\ files[1].name = "Screenshot 1.exe"
  /\ files[1].modified = 2024
  /\ files[1].destination = "Images/Screenshots/2024"

(***************************************************************************)
(* Properties of a remote batch                                            *)
(***************************************************************************)
\* the records of the batch the reply in `response` was for
last_batch == batch_at(batch_start - batch_size)

\* a reply entry that is an object with a filename and a destination and with
\* no field of a wrong type
WellFormed(c) ==
  /\ c.obj
  /\ "filename" \in c.keys
  /\ "destination" \in c.keys
  /\ "confidence" \in c.keys => c.conf_is_str

\* the entries of the reply that name the file
entries_for(name) ==
  IF response.kind # "list" THEN {}
  ELSE {j \in 1..Len(response.items) :
          /\ response.items[j].obj
          /\ "filename" \in response.items[j].keys
          /\ response.items[j].filename = name}

SameClassification(f, g) ==
  /\ f.destination = g.destination
  /\ f.confidence = g.confidence
  /\ f.source = g.source
  /\ f.reasoning = g.reasoning

\* C6: after a remote batch, every record of the batch whose file name is
\* absent from the reply, or for which the reply holds only malformed entries,
\* has the destination, confidence, source and reasoning it had before.
C6_MissingOrMalformedKept ==
  cpc = "llm" /\ response.kind # "none" =>
    \A k \in 1..Len(last_batch) :
      LET i == last_batch[k]
      IN  (\A j \in entries_for(files[i].name) : ~WellFormed(response.items[j]))
            => SameClassification(files[i], batch_before[i])

(***************************************************************************)
(* Properties of an executor run                                           *)
(***************************************************************************)
\* <stem>_<N><ext> in the folder of the planned path
renamed(planned, N) ==
  parent(planned) \o "/" \o stem(basename(planned)) \o "_" \o str(N)
    \o suffix(basename(planned))

Written == {k \in 1..Len(attempts) : attempts[k].wrote}

Sources == {plan.moves[k].source : k \in 1..Len(plan.moves)}

\* C7: every file is written to a path that did not exist just before the
\* write: the planned path when it is free, else <stem>_<N><ext> with N the
\* smallest integer >= 1 whose path is free; so the writes of one run go to
\* distinct paths and what the target held before the run is still there.
C7_NoOverwrite ==
  /\ \A k \in Written :
       LET a == attempts[k]
       IN  /\ ~exists(a.before, a.path)
           /\ ~exists(a.before, a.planned) => a.path = a.planned
           /\ exists(a.before, a.planned) =>
                \E N \in 1..(Cardinality(DOMAIN a.before) + 1) :
                  /\ a.path = renamed(a.planned, N)
                  /\ \A M \in 1..(N - 1) : exists(a.before, renamed(a.planned, M))
  /\ \A k, l \in Written : k # l => attempts[k].path # attempts[l].path
  /\ \A q \in DOMAIN fsys0 \ Sources : q \in DOMAIN fsys /\ fsys[q] = fsys0[q]

\* two moves planned to one path that exists, as does its first renaming:
\* they end at the second and the third
C7_Witness ==
  /\ epc = "done"
  /\ Len(attempts) = 2
  /\ attempts[1].ok /\ attempts[2].ok
  /\ attempts[1].planned = "/t/Docs/report.txt"
  /\ attempts[2].planned = "/t/Docs/report.txt"
  /\ attempts[1].path = "/t/Docs/report_2.txt"
  /\ attempts[2].path = "/t/Docs/report_3.txt"
  /\ fsys["/t/Docs/report.txt"] = "old report"

\* C8: with action copy every file that existed before the run, source or
\* target, is present with its bytes; a report.txt copied into a folder that
\* holds a report.txt (and no report_1.txt) arrives as report_1.txt.
C8_CopyPreserves ==
  plan.action = "copy" =>
    /\ \A q \in DOMAIN fsys0 : q \in DOMAIN fsys /\ fsys[q] = fsys0[q]
    /\ \A k \in 1..Len(attempts) :
         LET a == attempts[k]
         IN  /\ a.ok
             /\ basename(a.planned) = "report.txt"
             /\ exists(a.before, a.planned)
             /\ ~exists(a.before, parent(a.planned) \o "/report_1.txt")
             => /\ a.path = parent(a.planned) \o "/report_1.txt"
                /\ fsys[a.path] = fsys0[plan.moves[a.index].source]
                /\ fsys[a.planned] = a.before[a.planned]

C8_Witness ==
  /\ epc = "done"
  /\ plan.action = "copy"
  /\ "/t/Docs/report.txt" \in DOMAIN fsys0
  /\ "/t/Docs/report_1.txt" \notin DOMAIN fsys0
  /\ fsys["/t/Docs/report.txt"] = "old report"
  /\ "/t/Docs/report_1.txt" \in DOMAIN fsys
  /\ fsys["/t/Docs/report_1.txt"] = "bytes of /s/d1/report.txt"
  /\ fsys["/s/d1/report.txt"] = "bytes of /s/d1/report.txt"

\* C9: once the move loop runs, the moves are handled one by one in plan
\* order, each counted as one success or one failure with one error string per
\* failure, and the loop ends before the last move only on a stop request.
C9_FailureDoesNotAbort ==
  epc \in {"moves", "emit", "done"} =>
    /\ Len(attempts) = mi - 1
    /\ \A k \in 1..Len(attempts) : attempts[k].index = k
    /\ succeeded = Cardinality({k \in 1..Len(attempts) : attempts[k].ok})
    /\ failed = Cardinality({k \in 1..Len(attempts) : ~attempts[k].ok})
    /\ succeeded + failed = Len(attempts)
    /\ Len(errors) = failed
    /\ epc \in {"emit", "done"} /\ ~e_stop_requested => succeeded + failed = Len(plan.moves)

\* the first move failed, the second was still made, both were counted
C9_Witness ==
  /\ epc = "done"
  /\ ~e_stop_requested
  /\ Len(plan.moves) = 2
  /\ ~attempts[1].ok
  /\ attempts[2].ok
  /\ execution_complete = <<[succeeded |-> 1, failed |-> 1, errors |-> errors]>>

\* C10: a run that has ended has emitted execution_complete with its counts.
C10_RunEndsWithCompletion ==
  epc \in {"done", "crashed"} =>
    /\ Len(execution_complete) = 1
    /\ execution_complete[1].succeeded = succeeded
    /\ execution_complete[1].failed = failed

(***************************************************************************)
(* Properties of an executor run on a plan a caller constructed            *)
(***************************************************************************)
PlanLacksFields == \E k \in 1..Len(plan.moves) : ~has_required(plan.moves[k])

\* C11: a plan with a move entry that lacks source, destination or filename
\* is turned down before work starts: the run creates no folder, transfers no
\* file and does not end in an uncaught exception.
C11_MalformedPlanRejected ==
  PlanLacksFields => fsys = fsys0 /\ attempts = <<>> /\ epc # "crashed"

(***************************************************************************)
(* Properties of the completion of an executor run                         *)
(***************************************************************************)
truncation_note(e) == StartsWith(e, "...and ")

\* C12: the error list emitted through execution_complete holds at most
\* error_display_cap strings, and when more moves failed than that it holds a
\* note saying how many were left out.
C12_EmittedErrorsCapped ==
  \A k \in 1..Len(execution_complete) :
    LET payload == execution_complete[k]
    IN  /\ Len(payload.errors) <= error_display_cap + 1
        /\ payload.failed > error_display_cap =>
              \E i \in 1..Len(payload.errors) : truncation_note(payload.errors[i])

\* the loop ended on the stop flag: there were moves left
StoppedEarly == epc \in {"emit", "done"} /\ mi <= Len(plan.moves)

InPlace(a) ==
  /\ exists(fsys, a.path)
  /\ fsys[a.path] = fsys0[plan.moves[a.index].source]

\* C13: a move is started only while the stop flag is unset; once the flag is
\* set in the move loop the next step of run leaves the loop, nothing is
\* transferred or undone afterwards, every completed move is in place, and
\* the run can always go on to emit completion, which carries succeeded +
\* failed = the number of moves handled, at most the number of moves.
C13_StopBetweenMoves ==
  /\ [][epc = "moves" /\ mi' = mi + 1 => ~e_stop_requested]_vars
  /\ [][e_stop_requested /\ epc \in {"moves", "emit", "done"}
         => fsys' = fsys /\ attempts' = attempts /\ succeeded' = succeeded
            /\ failed' = failed /\ epc' \in {"emit", "done"}]_vars
  /\ [](StoppedEarly =>
         /\ succeeded + failed = mi - 1
         /\ succeeded + failed <= Len(plan.moves)
         /\ \A k \in 1..Len(attempts) : attempts[k].ok => InPlace(attempts[k])
         /\ epc = "done" =>
              execution_complete =
                <<[succeeded |-> succeeded, failed |-> failed, errors |-> errors]>>)
  /\ [](e_stop_requested /\ epc = "moves" => ENABLED exec_loop_exit)
  /\ [](epc = "emit" => ENABLED exec_complete)

\* the stop came after the first of two moves: the first file is in place,
\* the second was not started, completion carries the count 1
C13_Witness ==
  /\ epc = "done"
  /\ e_stop_requested
  /\ Len(plan.moves) = 2
  /\ mi = 2
  /\ Len(attempts) = 1 /\ attempts[1].ok /\ InPlace(attempts[1])
  /\ execution_complete = <<[succeeded |-> 1, failed |-> 0, errors |-> <<>>]>>

(***************************************************************************)
(* Properties of a scan                                                    *)
(***************************************************************************)
paths_of(fs) == [i \in 1..Len(fs) |-> fs[i].path]

Recorded(p) == \E i \in 1..Len(scanned) : scanned[i].path = p

Under(p, dir) == StartsWith(p, dir \o "/")

Unreadable == {d \in DOMAIN tree : tree[d].kind = "dir" /\ tree[d].listing # "ok"}

TypeCheckFails == \E p \in DOMAIN tree : tree[p].check = "type_check_raises"

Delivered == Len(scan_complete) = 1 /\ scan_complete[1] = scanned /\ scan_error = <<>>

\* C14: whatever keeps a directory from being listed, the scan skips it with
\* everything below it and ends by delivering its records through
\* scan_complete, with no error event; with three readable files next to the
\* unreadable folder, no stop and room for them, exactly those three.
C14_UnreadableDirSkipped ==
  spc = "done" /\ Unreadable # {} /\ ~TypeCheckFails =>
    /\ Delivered
    /\ \A i \in 1..Len(scanned) : \A d \in Unreadable : ~Under(scanned[i].path, d)
    /\ ~s_stop_requested /\ s_options.max_files > 3
       /\ tree["/src/b.txt"].check # "stat_raises"
       => {scanned[i].path : i \in 1..Len(scanned)}
            = {"/src/a.txt", "/src/b.txt", "/src/c.txt"}

\* C15: an exception while one file is handled costs at most that file's
\* record: the scan ends by delivering its records through scan_complete with
\* no error event, and without a stop and below max_files the files next to
\* the troubled one are among them.
C15_FileErrorDropsOneRecord ==
  spc = "done" /\ Unreadable = {} =>
    /\ Delivered
    /\ ~s_stop_requested /\ Len(scanned) < s_options.max_files
       => Recorded("/src/a.txt") /\ Recorded("/src/c.txt")

\* C16: the scan ends, and at every moment FileScanner.files holds at most
\* max_files records: once it holds max_files no call, at whatever depth,
\* appends another.
C16_MaxFilesBound ==
  /\ [](Len(scanned) <= s_options.max_files)
  /\ [][Len(scanned) >= s_options.max_files => scanned' = scanned]_vars
  /\ <>(spc = "done")

\* the cap of 2 was reached inside the subfolder: the files after it, there
\* and in the source folder, were left
C16_Witness ==
  /\ spc = "done"
  /\ ~s_stop_requested
  /\ s_options.max_files = 2
  /\ scan_complete = <<scanned>>
  /\ paths_of(scanned) = <<"/src/a.txt", "/src/sub/d.txt">>

\* C17: the stop flag is tested on entering a call and at the head of every
\* iteration, and a test that finds it set returns; once a test has found it
\* set, at whatever depth, FileScanner.files stays as it was then and the
\* scan ends by delivering exactly that list, with no error event.
C17_StopKeepsPartialList ==
  /\ [][s_stop_requested /\ spc = "scan" /\ ~top.checked
         => Len(stack') < Len(stack) /\ scanned' = scanned]_vars
  /\ [](seen_stop.seen => scanned = seen_stop.files /\ spc \in {"scan", "emit", "done"})
  /\ [](seen_stop.seen /\ spc = "done"
         => scan_complete = <<seen_stop.files>> /\ scan_error = <<>>)

\* the stop was seen inside the subfolder after two records
C17_Witness ==
  /\ spc = "done"
  /\ seen_stop.seen
  /\ paths_of(seen_stop.files) = <<"/src/a.txt", "/src/sub/d.txt">>
  /\ s_options.max_files > 2
  /\ scan_complete = <<seen_stop.files>>

(***************************************************************************)
(* Properties of plan building                                             *)
(***************************************************************************)
Planned == epc = "planned"

OneMovePerRecord ==
  /\ Len(plan.moves) = Len(files)
  /\ \A i \in 1..Len(files) :
       /\ plan.moves[i].source = files[i].path
       /\ plan.moves[i].filename = files[i].name

NoRepetition(l) == \A i, j \in 1..Len(l) : i # j => l[i] # l[j]

Statistics ==
  /\ plan.statistics.total_files = Len(files)
  /\ plan.statistics.total_files = Len(plan.moves)
  /\ plan.statistics.total_size_bytes = sum_sizes(files)
  /\ plan.statistics.folders_to_create = Len(plan.folders)
  /\ plan.statistics.duplicates_flagged =
       Cardinality({i \in 1..Len(files) : files[i].is_duplicate})

\* C18: the plan has one move per record in record order with destination =
\* record destination + '/' + filename, the folder list is the set of the
\* destination values of the records without repetition, and the statistics
\* are the four reductions.
C18_PlanFromRecords ==
  Planned =>
    /\ OneMovePerRecord
    /\ \A i \in 1..Len(files) :
         plan.moves[i].destination = files[i].destination \o "/" \o files[i].name
    /\ NoRepetition(plan.folders)
    /\ {plan.folders[i] : i \in 1..Len(plan.folders)}
         = {files[i].destination : i \in 1..Len(files)}
    /\ Statistics

(***************************************************************************)
(* Properties of the plan file                                             *)
(***************************************************************************)
\* C19: the text to_json gives for a plan parses, and the parsed object has
\* the moves of the plan (the same entries with the same keys and values in
\* the same order, duplicate_of = None included), its folders and its
\* statistics.
C19_JsonRoundTrip ==
  epc = "parsed" =>
    /\ json_parsed.ok
    /\ json_parsed.value.moves = plan.moves
    /\ \A i \in 1..Len(plan.moves) :
         DOMAIN json_parsed.value.moves[i] = DOMAIN plan.moves[i]
    /\ json_parsed.value.folders = plan.folders
    /\ json_parsed.value.statistics = plan.statistics

\* a plan of two moves went through: a name with a quote and a backslash,
\* and a duplicate with its fingerprint next to a record without one
C19_Witness ==
  /\ epc = "parsed"
  /\ json_parsed.ok
  /\ Len(plan.moves) = 2
  /\ plan.moves[1].filename = "no\"te\\1.txt"
  /\ json_parsed.value.moves[1].filename = "no\"te\\1.txt"
  /\ json_parsed.value.moves[1].duplicate_of = None
  /\ "file_hash" \notin DOMAIN json_parsed.value.moves[1]
  /\ json_parsed.value.moves[2].file_hash = "h1"
  /\ json_parsed.value.statistics.total_size_bytes = 1234

(***************************************************************************)
(* Properties of the order of local and remote classification              *)
(***************************************************************************)
EveryDestinationSet(fs) == \A i \in 1..Len(fs) : fs[i].destination # ""

\* C20: a remote batch is requested only when every record has been through
\* the local pipeline and has a destination, and when classification
\* completes without a stop request every record has a non-empty
\* destination, whatever the remote batches did.
C20_RemoteAfterLocal ==
  /\ cpc = "llm" => ci = Len(files) + 1
  /\ cpc = "llm" /\ batch_start = 0 => EveryDestinationSet(files)
  /\ cpc = "done" /\ ~c_stop_requested => EveryDestinationSet(files)

(***************************************************************************)
(* Properties of the remote batches of one run                             *)
(***************************************************************************)
RECURSIVE sent(_)
\* the records of the batches sent so far, one batch after the other
sent(reqs) ==
  IF Len(reqs) = 0 THEN <<>>
  ELSE sent(SubSeq(reqs, 1, Len(reqs) - 1)) \o reqs[Len(reqs)].batch

\* a step of the batch loop that made a request
BatchStep == cpc = "llm" /\ batch_start' # batch_start

\* C21: the unresolved records are sent in consecutive batches of at most 20,
\* each record in exactly one batch (the batches sent so far, one after the
\* other, are the front of the unresolved list, and all of it when the run
\* ends without a stop request); a batch whose request, transport or parsing
\* fails leaves every record as it was; a batch changes no record outside
\* it; and after any batch, failed or not, the next one can be sent.
C21_BatchesConfined ==
  /\ [](\A k \in 1..Len(requests) :
          Len(requests[k].batch) >= 1 /\ Len(requests[k].batch) <= batch_size)
  /\ [](sent(requests) = SubSeq(unclassified, 1, Len(sent(requests))))
  /\ [](cpc \in {"emit", "done"} /\ ~c_stop_requested => sent(requests) = unclassified)
  /\ [][BatchStep /\ response'.kind = "error" => files' = files]_vars
  /\ [][BatchStep =>
         \A i \in 1..Len(files) :
           (\A k \in 1..Len(batch_at(batch_start)) : batch_at(batch_start)[k] # i)
             => files'[i] = files[i]]_vars
  /\ [](cpc = "llm" /\ batch_start < Len(unclassified) /\ ~c_stop_requested
          => ENABLED run_llm_batch_sampled)

\* three batches were sent, the first two failed, and the third one's reply
\* was applied to its record while the records of the failed batches, which
\* have the same file name, still have their fallback classification
C21_Witness ==
  /\ cpc = "done"
  /\ Len(requests) = 3
  /\ requests[1].failed /\ requests[2].failed /\ ~requests[3].failed
  /\ Len(requests[1].batch) = batch_size
  /\ Len(requests[3].batch) = 1
  /\ files[requests[3].batch[1]].source = "llm"
  /\ \A k \in 1..batch_size :
       /\ files[requests[1].batch[k]].destination = "Unsorted/2024"
       /\ files[requests[2].batch[k]].source = "rule"

(***************************************************************************)
(* Properties of MultiCatalogSearch                                        *)
(***************************************************************************)
\* the extension of a path is .lrcat, in whatever case it is written
HasCatalogExtension(p) == lower(suffix(basename(p))) = ".lrcat"

\* C22: add_catalog on a path that does not exist, or on a path whose
\* extension is not .lrcat (in whatever case), returns False, sets
\* last_error to a message that contains the path and leaves the catalog
\* list as it was; the list never holds a path twice, however often the
\* path was accepted.
C22_AddCatalogRejects ==
  /\ [][k_call'.op = "add_catalog"
          /\ (~path_exists(k_disk, k_call'.path) \/ ~HasCatalogExtension(k_call'.path))
        => /\ k_returned' = FALSE
           /\ Contains(k_call'.path, last_error')
           /\ catalogs' = catalogs]_vars
  /\ [](NoRepetition(catalogs))

\* a path that does not exist was rejected, and later a path already in a
\* list of two was accepted once more
C22_Witness ==
  /\ last_error = "Catalog not found: /fake/path/catalog.lrcat"
  /\ k_call.op = "add_catalog"
  /\ k_returned
  /\ Len(catalogs) = 2
  /\ catalogs[1] = k_call.path

\* the query is empty or holds white space only
Blank(q) == \A i \in 1..Len(q) : Ch(q, i) \in {" ", "\t", "\n"}

\* C23: search with a query that is empty or only white space returns an
\* empty list with last_error 'Empty search query', and with another query
\* but no catalog in the list an empty list with last_error 'No catalogs
\* added', in both cases without connecting to any catalog; in every other
\* case it returns at most max_results results.
C23_SearchValidation ==
  k_call.op = "search" =>
    IF Blank(k_call.query)
    THEN k_results = <<>> /\ last_error = "Empty search query" /\ k_opened = <<>>
    ELSE IF catalogs = <<>>
    THEN k_results = <<>> /\ last_error = "No catalogs added" /\ k_opened = <<>>
    ELSE Len(k_results) <= k_call.max_results

\* after a search with a blank query was refused, a search over two
\* catalogs whose matches together exceed max_results: the list returned
\* holds results of both and is cut at max_results
C23_Witness ==
  /\ k_call.op = "search"
  /\ ~Blank(k_call.query)
  /\ Len(k_opened) = 2
  /\ k_call.max_results = MaxResults
  /\ Len(k_results) = MaxResults
  /\ k_results[1].catalog_path # k_results[MaxResults].catalog_path
  /\ last_error = "Empty search query"

(***************************************************************************)
(* Properties of the unresolved set                                        *)
(***************************************************************************)
\* the record is where the fallback step puts it
InFallback(f) == f.destination = "Unsorted/" \o year_of(f)

\* the record is a photo in the uncategorized photo bucket with confidence Low
UncategorizedPhoto(f) ==
  f.is_photo /\ f.destination = "Photos/Uncategorized/" \o year_of(f) /\ f.confidence = "low"

\* C24: with remote classification enabled, when the loop over the records
\* has ended the unresolved list holds exactly the records that reached the
\* fallback step and the photos placed in the uncategorized photo bucket
\* with confidence Low; with remote classification disabled the unresolved
\* list stays empty and no request is made.
C24_UnresolvedSet ==
  /\ options.use_llm /\ cpc = "after_loop" /\ ci = Len(files) + 1 =>
       {unclassified[k] : k \in 1..Len(unclassified)}
         = {i \in 1..Len(files) : InFallback(files[i]) \/ UncategorizedPhoto(files[i])}
  /\ ~options.use_llm => unclassified = <<>> /\ requests = <<>>

(***************************************************************************)
(* Properties of the writes to the classification fields                   *)
(***************************************************************************)
\* C25, as stated: over a run that is not stopped every record's
\* classification fields are written exactly once, by the local classifier
\* or by the remote classifier and not by both.
C25_WrittenExactlyOnce ==
  cpc = "done" /\ ~c_stop_requested =>
    \A i \in 1..Len(writes) : writes[i].local + writes[i].remote = 1

\* C25, amended: over one run every record is written at most once by the
\* local classifier and at most once by the remote classifier, by the
\* remote one only after the local one (a fallback record the reply names
\* is written by both), and by the local one exactly once when the run is
\* not stopped; after the run the records do not change: no step of plan
\* building or execution writes them.
C25_WrittenOncePerClassifier ==
  /\ [](\A i \in 1..Len(writes) :
          /\ writes[i].local <= 1
          /\ writes[i].remote <= 1
          /\ writes[i].remote = 1 => writes[i].local = 1)
  /\ [](cpc = "done" /\ ~c_stop_requested =>
          \A i \in 1..Len(writes) : writes[i].local = 1)
  /\ [][cpc = "done" \/ evars' # evars => files' = files]_vars

\* the plan was executed on a list in which one record was written by both
\* classifiers and another by the local one only
C25_Witness ==
  /\ execution_complete # <<>>
  /\ \E i, j \in 1..Len(writes) :
       /\ writes[i].local = 1 /\ writes[i].remote = 1
       /\ files[i].source = "llm"
       /\ plan.moves[i].classification_source = "llm"
       /\ writes[j].local = 1 /\ writes[j].remote = 0

(***************************************************************************)
(* Properties of the order of an executor run                              *)
(***************************************************************************)
\* the folder of the plan under the target root
folder_path_of(folder) == plan.target_root \o "/" \o folder

\* C26: every folder listed in the plan is a directory under the target
\* root before the first move is attempted and through the move loop;
\* creating a folder that is already there changes nothing and is not an
\* error; the moves are attempted in plan order, one at a time: the k-th
\* attempt is on move k, and when the next move starts every earlier one has
\* been counted as succeeded or failed.
C26_ExecutorOrdering ==
  /\ [](epc = "moves" \/ attempts # <<>> =>
          \A k \in 1..Len(plan.folders) :
             /\ exists(fsys, folder_path_of(plan.folders[k]))
             /\ fsys[folder_path_of(plan.folders[k])] = IsDir)
  /\ [](attempts # <<>> =>
          \A k \in 1..Len(plan.folders) :
             /\ exists(attempts[1].before, folder_path_of(plan.folders[k]))
             /\ attempts[1].before[folder_path_of(plan.folders[k])] = IsDir)
  /\ [][ /\ epc = "folders" /\ fi <= Len(plan.folders)
         /\ exists(fsys, folder_path_of(plan.folders[fi]))
         /\ fsys[folder_path_of(plan.folders[fi])] = IsDir
         /\ <<epc, fi, fsys>>' # <<epc, fi, fsys>>
         => fsys' = fsys /\ epc' = "folders" /\ fi' = fi + 1 ]_vars
  /\ [](\A k \in 1..Len(attempts) : attempts[k].index = k)
  /\ [](epc = "moves" => mi = Len(attempts) + 1 /\ succeeded + failed = Len(attempts))
  /\ [][ attempts' # attempts =>
           /\ epc = "moves"
           /\ attempts' = Append(attempts, attempts'[Len(attempts')])
           /\ attempts'[Len(attempts')].index = mi
           /\ mi' = mi + 1
           /\ succeeded' + failed' = succeeded + failed + 1 ]_vars

\* the folder loop went over a folder that was there before the run and
\* created another, then every move was attempted, the first of which failed
C26_Witness ==
  /\ epc = "done"
  /\ Len(attempts) = MaxMoves
  /\ ~attempts[1].ok /\ attempts[MaxMoves].ok
  /\ \E k \in 1..Len(plan.folders) :
       /\ exists(fsys0, folder_path_of(plan.folders[k]))
       /\ fsys0[folder_path_of(plan.folders[k])] = IsDir
  /\ \E k \in 1..Len(plan.folders) : ~exists(fsys0, folder_path_of(plan.folders[k]))

(***************************************************************************)
(* Properties of a stopped classifier run                                  *)
(***************************************************************************)
\* the classification of a record
four_fields(f) == <<f.destination, f.confidence, f.source, f.reasoning>>

\* a step of run itself, as opposed to a call of stop
RunStep ==
  \/ run_begin
  \/ run_classify
  \/ run_loop_exit
  \/ run_llm_guard
  \/ run_llm_batch_sampled
  \/ run_llm_exit
  \/ run_complete

\* C27: once the stop flag is set no further record is classified and no
\* further remote batch is started: the classification of every record, the
\* count of records reached and the requests made stay as they are (a run
\* stopped before it began still does its duplicate pre-pass, which writes
\* no classification).  The run goes on to its
\* end all the same (some step of run is possible until it is done) and
\* there it emits classification_complete once, with the full list.  At
\* every moment a record the loop has not reached has an empty destination
\* and was never written, and a record it has reached was written.
C27_ClassifierCancellation ==
  /\ [][c_stop_requested =>
          /\ Len(files') = Len(files)
          /\ \A i \in 1..Len(files) : four_fields(files'[i]) = four_fields(files[i])
          /\ unclassified' = unclassified
          /\ requests' = requests
          /\ cpc # "start" => ci' = ci /\ writes' = writes /\ files' = files]_vars
  /\ [](ClassifierRunning => ENABLED RunStep)
  /\ [](cpc # "done" => classification_complete = <<>>)
  /\ [](cpc = "done" =>
          /\ classification_complete = <<files>>
          /\ Len(files) = Len(writes))
  /\ [](cpc = "start" => \A i \in 1..Len(files) : files[i].destination = "")
  /\ [](cpc # "start" =>
          \A i \in 1..Len(files) :
             /\ i >= ci => files[i].destination = "" /\ writes[i].local = 0 /\ writes[i].remote = 0
             /\ i < ci => writes[i].local = 1)

\* a run stopped in the loop came to its end: records were classified, one
\* of them was put on the unresolved list, others were not reached, no
\* request was made and the list went out
C27_Witness ==
  /\ cpc = "done"
  /\ c_stop_requested
  /\ 1 < ci /\ ci < Len(files)
  /\ unclassified # <<>>
  /\ requests = <<>>
  /\ classification_complete = <<files>>
  /\ files[1].destination # ""
  /\ files[Len(files)].destination = ""

(***************************************************************************)
(* Properties of the four fields after a remote batch                      *)
(***************************************************************************)
\* the record holds what the entry gives: the four fields of a remote
\* classification (the confidence only where the entry's is a string)
HoldsEntry(f, c) ==
  /\ f.destination = c.destination
  /\ f.source = "llm"
  /\ f.reasoning = (IF "reasoning" \in c.keys THEN c.reasoning ELSE "Classified by AI")
  /\ "confidence" \in c.keys /\ c.conf_is_str => f.confidence = confidence_of(lower(c.confidence))
  /\ "confidence" \notin c.keys => f.confidence = "medium"

\* C28: after a remote batch, whatever the reply, every record of the batch
\* has source LLM if and only if its destination is the one the reply gives
\* for its file name, and its four fields are either those it had before
\* the batch or those of the reply's entry: they change together or not at
\* all.
C28_FieldsConsistent ==
  cpc = "llm" /\ response.kind # "none" =>
    \A k \in 1..Len(last_batch) :
      LET i       == last_batch[k]
          cls_map == IF response.kind = "list" THEN cls_map_of(response.items) ELSE <<>>
          given   == files[i].name \in DOMAIN cls_map
      IN  /\ files[i].source = "llm"
               <=> given /\ files[i].destination = cls_map[files[i].name].destination
          /\ \/ SameClassification(files[i], batch_before[i])
             \/ given /\ HoldsEntry(files[i], cls_map[files[i].name])

(***************************************************************************)
(* Properties of the records the remote step leaves alone                  *)
(***************************************************************************)
\* the loop classified the record as a duplicate, from its keywords, by
\* the rule table or by the photo step (branches 1 to 4 of the chain)
LocallySettled(i) == writes[i].step \in 1..4

\* the reply holds an entry that would be taken for the record's file name
NamedByReply(i) ==
  /\ response.kind = "list"
  /\ \E j \in 1..Len(response.items) :
       usable(response.items[j]) /\ response.items[j].filename = files[i].name

\* C29: no remote batch changes a record that was classified as a
\* duplicate, from its keywords, by the rule table or by the photo step:
\* after every batch such a record is as it was before the batch, so it
\* keeps its destination, confidence, source and reasoning (and every other
\* field), whatever the reply holds, an entry with its file name included.
\* Put the other way round: after every batch, a record that the batch
\* changed, that was sent with it, that the remote classifier has written
\* or whose source is LLM is one that reached the fallback step.
C29_RemoteOnlyTouchesFallback ==
  cpc = "llm" /\ response.kind # "none" =>
    \A i \in 1..Len(files) :
       \/ /\ files[i] = batch_before[i]
          /\ writes[i].remote = 0
          /\ files[i].source # "llm"
          /\ \A q \in 1..Len(last_batch) : last_batch[q] # i
       \/ ~LocallySettled(i)

\* a batch has just come back with an entry for the file name of a record
\* that was settled locally, and with one that was taken for a fallback
\* record
C29_Witness ==
  /\ cpc = "llm"
  /\ \E i, j \in 1..Len(files) :
       /\ LocallySettled(i)
       /\ NamedByReply(i)
       /\ files[i].destination # ""
       /\ ~LocallySettled(j)
       /\ files[j].source = "llm"

(***************************************************************************)
(* Properties of records without a fingerprint                             *)
(***************************************************************************)
\* a record without a fingerprint is not marked duplicate and no record
\* refers to it as its canonical record
NoFingerprintNoDuplicate ==
  \A i \in 1..Len(files) :
    files[i].file_hash = "" =>
      /\ ~files[i].is_duplicate
      /\ files[i].duplicate_of = None
      /\ \A j \in 1..Len(files) : files[j].duplicate_of # files[i].path

AllFingerprintsEmpty == \A i \in 1..Len(files) : files[i].file_hash = ""

\* C30, as stated: a record whose fingerprint is empty is never marked
\* duplicate and is never the canonical record of another one; when every
\* fingerprint is empty no record is marked duplicate and no destination is
\* the quarantine folder.
C30_NoFingerprintNoQuarantine ==
  /\ NoFingerprintNoDuplicate
  /\ AllFingerprintsEmpty =>
       \A i \in 1..Len(files) :
         ~files[i].is_duplicate /\ files[i].destination # "_Duplicates"

\* C30, amended: a record whose fingerprint is empty is never marked
\* duplicate and is never the canonical record of another one; when every
\* fingerprint is empty no record is marked duplicate and no destination
\* set by the local classifier is the quarantine folder: a record is in the
\* quarantine folder only if it is a duplicate with a fingerprint or a
\* remote reply named that folder for it.
C30_NoFingerprintNoLocalQuarantine ==
  /\ NoFingerprintNoDuplicate
  /\ AllFingerprintsEmpty =>
       \A i \in 1..Len(files) :
         /\ ~files[i].is_duplicate
         /\ files[i].destination = "_Duplicates" => writes[i].remote = 1
  /\ \A i \in 1..Len(files) :
       files[i].destination = "_Duplicates" =>
         \/ files[i].is_duplicate /\ files[i].file_hash # "" /\ writes[i].step = 1
         \/ writes[i].remote = 1

\* a run on records that all lack a fingerprint came to its end: each was
\* classified by the fallback step, none is marked duplicate, and the reply
\* put one of them, not the others, into the quarantine folder
C30_Witness ==
  /\ cpc = "done"
  /\ ~c_stop_requested
  /\ Len(files) = MaxDupFiles
  /\ AllFingerprintsEmpty
  /\ \A i \in 1..Len(files) : ~files[i].is_duplicate /\ writes[i].step = 5
  /\ files[1].destination = "_Duplicates" /\ writes[1].remote = 1
  /\ \A i \in 2..Len(files) : files[i].destination = "Unsorted/2023"

====
